---- MODULE Spec2Model ----
(***************************************************************************)
(* Model of ninibe/netlog: the BigLog storage engine (segments, index,     *)
(* split/trim, readers, watchers, notification dispatcher) and the topic   *)
(* layer built on it (message codec, topic scanner, Payload).              *)
(*                                                                         *)
(* Bytes are modelled as cells holding naturals.  A message carries its     *)
(* 9-byte header (compver, crc32, plength) cell by cell; the crc32, gzip   *)
(* and snappy transformations are stand-ins that change the bytes and are  *)
(* undone by their inverses only.  Readers over decompressed streams       *)
(* deliver every read in full.  The buffered segment writer is left at its *)
(* default (bufioSize = 0), the configuration the topic layer runs with.   *)
(* Relative offsets are uint32 in the code; their subtraction wraps        *)
(* modulo Uint32Mod, a scaled-down 2^32.  A Go run-time panic (slice or    *)
(* index out of range) is the result "panic" of the operation it ends.     *)
(***************************************************************************)
EXTENDS Integers, Sequences, FiniteSets, TLC

\* ------------------------------------------------------------------ bounds
MaxIndexEntries == 3      \* maxIndexEntries handed to biglog.Create
MaxWrites == 4            \* number of WriteN calls explored by Spec
MaxN == 2                 \* largest offset-delta n of one WriteN
MaxSegments == 4          \* number of segments ever created by Spec
RWMaxSegments == 3        \* number of segments ever created with readers and watchers
RWMaxWrites == 2          \* number of WriteN calls explored with readers and watchers
MaxReaders == 1           \* number of readers ever opened
MaxWatchers == 1          \* number of watchers ever opened
TopicMaxWrites == 2       \* number of writes to the topic
MaxScanners == 1          \* number of topic scanners ever created
MaxTopicReaders == 3      \* readers open on the topic's log, leaked ones included
ScannerBufSize == 16      \* initial size of a Scanner's buffer
LookupMaxN == 3           \* largest n of one WriteN under readers by offset
LookupMaxWrites == 3      \* number of WriteN calls under readers by offset
ReadBuf == 2              \* length of the buffer handed to Reader.Read
MaxBatch == 3             \* largest BatchNumMessages of a messageBuffer
MaxBufWrites == 4         \* number of Write calls on a messageBuffer
BufioSize == 3            \* size given to BufioWriter
StreamMaxOffsets == 3     \* largest maxOffsets given to Streamer.Get
StreamMaxBytes == 2       \* largest maxBytes given to Streamer.Get
StreamMaxGets == 3        \* number of Streamer.Get calls
MaxCallers == 1           \* goroutines calling Scan on one persistent scanner
OcCap == 1                \* capacity of the offset channel of a persistent scanner (100)
MaxBoots == 1             \* number of times the server process is started again
MaxNow == 3               \* the clock stops at this time
MaxStreamMsgs == 2        \* messages in one stream handed to Topic.ReadFrom
errLimit == 2             \* errors an integrity check collects before it stops (1000)
IntMaxWrites == 3         \* number of writes to a topic under integrity checks
MaxSegAge == 2            \* largest SegAge setting of a topic
MaxSegSize == 2           \* largest SegSize setting of a topic

\* --------------------------------------------------------------- constants
ow == 4
tw == ow + 4
iw == tw + 8

\* width of the uint32 arithmetic on relative offsets: 2^16 stands for 2^32
Uint32Mod == 65536

Nil == -1
NoErr == "nil"
ErrSegmentFull == "biglog: segment full"
ErrSegmentBusy == "biglog: segment busy"
ErrLastSegment == "biglog: last segment can't be deleted"
ErrBusy == "biglog: resource busy"
ErrNotFound == "biglog: offset not found"
ErrEmbeddedOffset == "biglog: embedded offset"
ErrROInvalid == "biglog: invalid relative offset 0 < RO < 4294967295"
ErrRONotFound == "biglog: relative offset not found in segment"
ErrExist == "file exists"
Panic == "panic"
ErrNeedMoreBytes == "biglog: maxBytes too low for any entry"
ErrNeedMoreOffsets == "biglog: maxOffsets too low for any entry"
EOF == "EOF"

VARIABLES
    disk,       \* base offset -> [index, data]: the segment files in the log's directory
    segs,       \* bl.segs: sequence of loaded segments (in-memory fields)
    hotSeg,     \* bl.hotSeg: id of the hot segment, Nil once closed
    nextSegId,  \* number of segment objects allocated so far
    notifyCh,   \* segment id -> [len, closed]: the segment's notify channel
    watchers,   \* bl.watchers: set of registered watcher ids
    wch,        \* watcher id -> [len, closed]: the watcher's channel
    readers,    \* bl.readers: set of registered reader ids
    rdr,        \* reader id -> [seg, dFO, open]
    now,        \* time.Now().Unix()
    nWrites,    \* number of WriteN calls made
    lastW,      \* history: [off, n] of the latest successful WriteN, n = 0 before the first
    lastOp,     \* history: the operation that made the last step and its result
    scanners,   \* t.scanners: sequence of BLTopicScanner records
    written,    \* history: the messages written to the topic, written[o + 1] at offset o
    dpc,        \* BigLog.notify goroutine: "load" before hotSeg.Load(), "recv" blocked on the channel
    dseg,       \* BigLog.notify goroutine: the segment whose notify channel it receives from
    mb,         \* the messageBuffer, its flusher goroutine and the writer under it
    appended,   \* history: [off, n, b, seg] of every successful WriteN, in order
    strm,       \* the Streamer: its Reader, its IndexReader, its mutex and the delta handed out
    pts,        \* the PersistentTopicScanner: its offset channel and its file
    fl,         \* the reader call in progress, between two of its steps
    wr,         \* bl.bufioSize and the hot segment's writer
    mtime       \* base offset -> modification time of the segment's data file

vars == <<disk, segs, hotSeg, nextSegId, notifyCh, watchers, wch, readers, rdr,
          now, nWrites, lastW, lastOp, scanners, written, dpc, dseg, mb, appended,
          strm, pts, fl, wr, mtime>>

\* the topic layer and the dispatcher, left alone by the plain BigLog operations
topicVars == <<scanners, written>>

dispVars == <<dpc, dseg>>

\* F applied to the value of v; v is evaluated once, however often F uses it
Bind(v, F(_)) == CHOOSE r \in {F(x) : x \in {v}} : TRUE

\* ------------------------------------------------------------ sort.Search
RECURSIVE SearchLoop(_, _, _)
SearchLoop(i, j, f) ==
    IF i < j
    THEN LET h == (i + j) \div 2
         IN  IF ~f[h] THEN SearchLoop(h + 1, j, f) ELSE SearchLoop(i, h, f)
    ELSE i

sortSearch(n, f) == SearchLoop(0, n, f)

\* ---------------------------------------------------------------- segment
ZeroEntry == [RO |-> 0, TS |-> 0, dFO |-> 0]

\* entry number k of the index lives at bytes [k*iw, (k+1)*iw)
InIndex(index, iFO) == iFO >= 0 /\ (iFO \div iw) \in DOMAIN index

readEntry(index, iFO) == index[iFO \div iw]

writeEntry(index, iFO, relativeOffset, dataFileOffset) ==
    [index EXCEPT ![iFO \div iw] = [@ EXCEPT !.RO = relativeOffset, !.dFO = dataFileOffset]]

writeEntryTS(index, iFO, timestamp) ==
    [index EXCEPT ![iFO \div iw] = [@ EXCEPT !.TS = timestamp]]

createSegIndex(maxIndexEntries) ==
    writeEntry([k \in 0..(maxIndexEntries - 1) |-> ZeroEntry], 0, 1, 0)

indexOfNRO(index) ==
    LET n == Cardinality(DOMAIN index)
        i == sortSearch(n, [k \in 0..(n - 1) |-> index[k].RO = 0])
    IN  (i - 1) * iw

indexOfRO(index, RO) ==
    LET n == Cardinality(DOMAIN index)
        i == sortSearch(n, [k \in 0..(n - 1) |-> index[k].RO > RO \/ index[k].RO = 0])
    IN  (i - 1) * iw

\* loadSegment: the in-memory fields of a segment read back from its index
loadSegment(id, baseOffset, file) ==
    LET i == indexOfNRO(file.index)
        e == readEntry(file.index, i)
    IN  [id |-> id, baseOffset |-> baseOffset,
         indexSize |-> Cardinality(DOMAIN file.index) * iw,
         createdTS |-> readEntry(file.index, 0).TS,
         NdFO |-> e.dFO, NRO |-> e.RO, NiFO |-> i, readers |-> 0]

IsFull(s) == s.NiFO + iw >= s.indexSize

IsBusy(s) == s.readers > 0

absolute(offset, base) == offset + base - 1

relative(offset, base) == offset - base + 1

\* segment.WriteN whose updateIndex leaves out the entry of the next offset
segWriteN_dropsEntry(s, file, ch, b, n, ts) ==
    IF s.NiFO >= s.indexSize
    THEN [seg |-> s, file |-> file, ch |-> ch, err |-> ErrSegmentFull]
    ELSE [seg |-> [s EXCEPT !.NRO = s.NRO + n, !.NdFO = s.NdFO + Len(b), !.NiFO = s.NiFO + iw],
          file |-> [index |-> writeEntryTS(file.index, s.NiFO, ts), data |-> file.data \o b],
          ch |-> IF ch.closed THEN ch ELSE [ch EXCEPT !.len = 1],
          err |-> NoErr]

\* segment.WriteN whose updateIndex stamps the entry of the next offset
segWriteN_stampsNext(s, file, ch, b, n, ts) ==
    IF s.NiFO >= s.indexSize \/ ~InIndex(file.index, s.NiFO + iw)
    THEN [seg |-> s, file |-> file, ch |-> ch, err |-> ErrSegmentFull]
    ELSE [seg |-> [s EXCEPT !.NRO = s.NRO + n, !.NdFO = s.NdFO + Len(b), !.NiFO = s.NiFO + iw],
          file |-> [index |-> writeEntryTS(writeEntry(file.index, s.NiFO + iw, s.NRO + n,
                                                      s.NdFO + Len(b)),
                                           s.NiFO + iw, ts),
                    data |-> file.data \o b],
          ch |-> IF ch.closed THEN ch ELSE [ch EXCEPT !.len = 1],
          err |-> NoErr]

\* segment.WriteN = write + updateIndex; returns the new segment, file,
\* notify-channel length and error
segWriteN(s, file, ch, b, n, ts) ==
    IF s.NiFO >= s.indexSize
    THEN [seg |-> s, file |-> file, ch |-> ch, err |-> ErrSegmentFull]
    ELSE LET data1 == file.data \o b
             idx1 == writeEntryTS(file.index, s.NiFO, ts)
             NRO1 == s.NRO + n
             NdFO1 == s.NdFO + Len(b)
             NiFO1 == s.NiFO + iw
         IN  IF s.NRO = 0 \/ ~InIndex(file.index, NiFO1)
             THEN [seg |-> [s EXCEPT !.NRO = NRO1, !.NdFO = NdFO1, !.NiFO = NiFO1],
                   file |-> [index |-> idx1, data |-> data1], ch |-> ch, err |-> Panic]
             ELSE [seg |-> [s EXCEPT !.NRO = NRO1, !.NdFO = NdFO1, !.NiFO = NiFO1],
                   file |-> [index |-> writeEntry(idx1, NiFO1, NRO1, NdFO1), data |-> data1],
                   ch |-> IF ch.closed THEN ch ELSE [ch EXCEPT !.len = 1],
                   err |-> NoErr]

\* segment.Lookup and searchRO
searchRO(s, index, RO) ==
    LET i == indexOfRO(index, RO)
    IN  IF ~InIndex(index, i)
        THEN [err |-> Panic, fRO |-> 0, iFO |-> 0, dFO |-> 0]
        ELSE LET e == readEntry(index, i)
             IN  [err |-> IF e.RO < RO THEN ErrEmbeddedOffset ELSE NoErr,
                  fRO |-> e.RO, iFO |-> i, dFO |-> e.dFO]

Lookup(s, index, RO) ==
    IF RO = 0 THEN [err |-> ErrROInvalid, fRO |-> 0, iFO |-> 0, dFO |-> 0]
    ELSE IF RO > s.NRO THEN [err |-> ErrRONotFound, fRO |-> 0, iFO |-> 0, dFO |-> 0]
    ELSE LET maxIFO == (RO - 1) * iw
         IN  IF ~InIndex(index, maxIFO)
             THEN [err |-> Panic, fRO |-> 0, iFO |-> 0, dFO |-> 0]
             ELSE LET e == readEntry(index, maxIFO)
                  IN  IF e.RO = RO
                      THEN [err |-> NoErr, fRO |-> RO, iFO |-> maxIFO, dFO |-> e.dFO]
                      ELSE IF e.RO # 0 /\ e.RO < RO - 1
                      THEN [err |-> Panic, fRO |-> 0, iFO |-> 0, dFO |-> 0]
                      ELSE searchRO(s, index, RO)

\* ----------------------------------------------------------------- BigLog
SegIdx(ss, id) == CHOOSE k \in 1..Len(ss) : ss[k].id = id

HasSeg(ss, id) == \E k \in 1..Len(ss) : ss[k].id = id

HotSegOf(ss, hot) == ss[SegIdx(ss, hot)]

indexOfSegment(a, offset) ==
    sortSearch(Len(a), [k \in 0..(Len(a) - 1) |-> a[k + 1].baseOffset > offset]) - 1

latest(ss, hot) ==
    LET h == HotSegOf(ss, hot)
    IN  IF Len(ss) = 1 /\ h.NRO = 1 THEN -1 ELSE absolute(h.NRO - 1, h.baseOffset)

Latest == latest(segs, hotSeg)

Oldest == segs[1].baseOffset

locateOffset(ss, offset) ==
    LET i == indexOfSegment(ss, offset)
    IN  IF i < 0 THEN [err |-> ErrNotFound, seg |-> Nil, RO |-> 0]
        ELSE LET RO == relative(offset, ss[i + 1].baseOffset)
             IN  IF RO > ss[i + 1].NRO THEN [err |-> ErrNotFound, seg |-> Nil, RO |-> 0]
                 ELSE [err |-> NoErr, seg |-> ss[i + 1].id, RO |-> RO]

\* setHotSeg: close the previous hot segment's notify channel, publish the new one
setHotSeg(chs, prev, id) ==
    LET c1 == IF prev # Nil THEN [chs EXCEPT ![prev] = [@ EXCEPT !.closed = TRUE]] ELSE chs
    IN  c1

NewCh == [len |-> 0, closed |-> FALSE]

\* split that appends the new segment but never publishes it as the hot one
split_keepsHotSeg(d, ss, hot, chs, id) ==
    LET base == latest(ss, hot) + 1
        maxIndexEntries == HotSegOf(ss, hot).indexSize \div iw
        file == [index |-> createSegIndex(maxIndexEntries), data |-> <<>>]
    IN  IF base \in DOMAIN d
        THEN [err |-> ErrExist, disk |-> d, segs |-> ss, hot |-> hot, chs |-> chs]
        ELSE [err |-> NoErr,
              disk |-> [x \in DOMAIN d \cup {base} |-> IF x = base THEN file ELSE d[x]],
              segs |-> Append(ss, loadSegment(id, base, file)),
              hot |-> hot,
              chs |-> [x \in DOMAIN chs \cup {id} |-> IF x = id THEN NewCh ELSE chs[x]]]

\* BigLog.split: createSegment at latest()+1, append, setHotSeg
split(d, ss, hot, chs, id) ==
    LET base == latest(ss, hot) + 1
        maxIndexEntries == HotSegOf(ss, hot).indexSize \div iw
        file == [index |-> createSegIndex(maxIndexEntries), data |-> <<>>]
    IN  IF base \in DOMAIN d
        THEN [err |-> ErrExist, disk |-> d, segs |-> ss, hot |-> hot, chs |-> chs]
        ELSE [err |-> NoErr,
              disk |-> [x \in DOMAIN d \cup {base} |-> IF x = base THEN file ELSE d[x]],
              segs |-> Append(ss, loadSegment(id, base, file)),
              hot |-> id,
              chs |-> [x \in DOMAIN chs \cup {id} |->
                          IF x = id THEN NewCh ELSE setHotSeg(chs, hot, id)[x]]]

\* BigLog.writeN: splitIfFull, then the hot segment's WriteN
writeN(d, ss, hot, chs, id, b, n, ts) ==
    LET sp == IF IsFull(HotSegOf(ss, hot)) THEN split(d, ss, hot, chs, id)
              ELSE [err |-> NoErr, disk |-> d, segs |-> ss, hot |-> hot, chs |-> chs]
    IN  IF sp.err # NoErr
        THEN [err |-> sp.err, disk |-> d, segs |-> ss, hot |-> hot, chs |-> chs, off |-> Nil]
        ELSE LET k == SegIdx(sp.segs, sp.hot)
                 h == sp.segs[k]
                 w == segWriteN(h, sp.disk[h.baseOffset], sp.chs[h.id], b, n, ts)
             IN  [err |-> w.err,
                  disk |-> [sp.disk EXCEPT ![h.baseOffset] = w.file],
                  segs |-> [sp.segs EXCEPT ![k] = w.seg],
                  hot |-> sp.hot,
                  chs |-> [sp.chs EXCEPT ![h.id] = w.ch],
                  off |-> absolute(h.NRO, h.baseOffset)]

\* -------------------------------------------------------------------- Init
\* the bytes of the k-th write: distinct contents, lengths 1 and 2
Blob(k) == IF k % 2 = 0 THEN <<10 + k>> ELSE <<10 + k, 20 + k>>

Op(op, err, arg, ret) == [op |-> op, err |-> err, arg |-> arg, ret |-> ret, m |-> <<>>]

OpM(op, err, arg, ret, m) == [op |-> op, err |-> err, arg |-> arg, ret |-> ret, m |-> m]

\* biglog.Create(dir, MaxIndexEntries) followed by Open
\* no messageBuffer has been made yet
NoBuffer ==
    [made |-> FALSE, messages |-> 0, ticker |-> FALSE, comp |-> 0, buff |-> <<>>,
     writes |-> <<>>, wrote |-> <<>>, fpc |-> "none", cpc |-> "idle"]

\* no Streamer has been made yet; sec is the IndexSection ReadSection last
\* returned, delta the StreamDelta Get last returned, N what its LimitReader
\* has left, sent the bytes read from it, next the offset after the last delta
NoSection == [nil |-> TRUE, Offset |-> 0, ODelta |-> 0, EDelta |-> 0, Size |-> 0]

NoStreamer ==
    [made |-> FALSE, rseg |-> Nil, rpos |-> 0, iseg |-> Nil, iFO |-> 0, locked |-> FALSE,
     sec |-> NoSection, delta |-> NoSection, N |-> 0, sent |-> <<>>,
     start |-> 0, next |-> 0, maxOffsets |-> 0, maxBytes |-> 0, gets |-> 0]

\* no persistent scanner has been made yet: no file, an empty channel, no
\* Scan call in progress.  returned and from0 are history: the offsets Scan
\* has handed to its callers and the offset the scanner was first made at.
NoPersist ==
    [made |-> FALSE, file |-> -1, oc |-> <<>>, closed |-> FALSE,
     calls |-> [c \in 1..MaxCallers |-> [pc |-> "idle", off |-> -1]],
     returned |-> {}, from0 |-> -1, boots |-> 0]

\* no reader call is in progress
NoCall == [pc |-> "none"]

\* bufioSize 0: the hot segment writes to its data file.  buffered tells that
\* the hot segment's writer is a bufio.Writer, buf is what it holds back,
\* orphan the segments whose writer is a file removed from the directory
PlainWriter == [size |-> 0, buffered |-> FALSE, buf |-> <<>>, orphan |-> {}]

Init ==
    LET file == [index |-> createSegIndex(MaxIndexEntries), data |-> <<>>]
    IN  /\ disk = (0 :> file)
        /\ segs = <<loadSegment(0, 0, file)>>
        /\ hotSeg = 0
        /\ nextSegId = 1
        /\ notifyCh = (0 :> NewCh)
        /\ watchers = {}
        /\ wch = <<>>
        /\ readers = {}
        /\ rdr = <<>>
        /\ now = 1
        /\ nWrites = 0
        /\ lastW = [off |-> -1, n |-> 0]
        /\ lastOp = Op("Create", NoErr, 0, 0)
        /\ scanners = <<>>
        /\ written = <<>>
        /\ dpc = "load"
        /\ dseg = Nil
        /\ mb = NoBuffer
        /\ appended = <<>>
        /\ strm = NoStreamer
        /\ pts = NoPersist
        /\ fl = NoCall
        /\ wr = PlainWriter
        /\ mtime = (0 :> 1)

\* ------------------------------------------------------- writer and files
\* the file system: a data file's modification time is the time it was
\* created or last written to
ModTimes(m, d, d1, t) ==
    [x \in DOMAIN d1 |-> IF x \in DOMAIN d /\ d1[x].data = d[x].data THEN m[x] ELSE t]

\* bufio.Writer.Write(p) with a buffer of size bytes holding buf, over a file
\* holding data
RECURSIVE bufioWrite(_, _, _, _)
bufioWrite(data, buf, p, size) ==
    IF Len(p) > size - Len(buf)
    THEN IF Len(buf) = 0
         THEN [data |-> data \o p, buf |-> <<>>]
         ELSE bufioWrite(data \o buf \o SubSeq(p, 1, size - Len(buf)), <<>>,
                         SubSeq(p, size - Len(buf) + 1, Len(p)), size)
    ELSE [data |-> data, buf |-> buf \o p]

\* setHotSeg, the writers: the previous hot segment's bufio.Writer is flushed
\* and replaced by the data file, the new one gets a bufio.Writer if bufioSize > 0
switchWriter(d, ss, hot, w) ==
    [disk |-> IF w.buf = <<>> THEN d
              ELSE [d EXCEPT ![HotSegOf(ss, hot).baseOffset].data = @ \o w.buf],
     wr |-> [w EXCEPT !.buf = <<>>, !.buffered = (w.size > 0)]]

\* s.writer.Write(b) of the hot segment, data being its data file
writerWrite(data, w, hot, b) ==
    IF hot \in w.orphan THEN [data |-> data, buf |-> w.buf]
    ELSE IF w.buffered THEN bufioWrite(data, w.buf, b, w.size)
    ELSE [data |-> data \o b, buf |-> <<>>]

\* BigLog.writeN with the writers in place: r is what writeN gives when the
\* hot segment writes straight to its data file
throughWriter(d, ss, hot, w, r, b) ==
    IF r.err # NoErr THEN [disk |-> r.disk, wr |-> w]
    ELSE LET sw == IF r.hot # hot THEN switchWriter(r.disk, ss, hot, w)
                   ELSE [disk |-> r.disk, wr |-> w]
             base == HotSegOf(r.segs, r.hot).baseOffset
             ww == writerWrite(IF r.hot # hot THEN <<>> ELSE d[base].data, sw.wr, r.hot, b)
         IN  [disk |-> [sw.disk EXCEPT ![base].data = ww.data],
              wr |-> [sw.wr EXCEPT !.buf = ww.buf]]

Open == hotSeg # Nil

\* BigLog.WriteN(b, n)
DoWriteN(b, n, cap, segCap) ==
    /\ Open
    /\ nWrites < cap
    /\ IsFull(HotSegOf(segs, hotSeg)) => nextSegId < segCap
    /\ LET r == writeN(disk, segs, hotSeg, notifyCh, nextSegId, b, n, now)
       IN  /\ \E th \in {throughWriter(disk, segs, hotSeg, wr, r, b)} :
                /\ disk' = th.disk
                /\ wr' = th.wr
                /\ mtime' = ModTimes(mtime, disk, th.disk, now)
           /\ segs' = r.segs
           /\ hotSeg' = r.hot
           /\ notifyCh' = r.chs
           /\ nextSegId' = IF r.hot # hotSeg THEN nextSegId + 1 ELSE nextSegId
           /\ lastW' = IF r.err = NoErr THEN [off |-> r.off, n |-> n] ELSE lastW
           /\ appended' = IF r.err = NoErr
                          THEN Append(appended, [off |-> r.off, n |-> n, b |-> b, seg |-> r.hot])
                          ELSE appended
           /\ lastOp' = Op("WriteN", r.err, n, r.off)
    /\ nWrites' = nWrites + 1
    /\ UNCHANGED <<watchers, wch, readers, rdr, now>>
    /\ UNCHANGED <<topicVars, dispVars>>
    /\ UNCHANGED <<mb, strm, pts, fl>>

WriteN == \E n \in 1..MaxN : DoWriteN(Blob(nWrites), n, MaxWrites, MaxSegments)

RWWriteN == \E n \in 1..MaxN : DoWriteN(Blob(nWrites), n, RWMaxWrites, RWMaxSegments)

\* BigLog.Write(b) = WriteN(b, 1)
RWWrite == DoWriteN(Blob(nWrites), 1, RWMaxWrites, RWMaxSegments)

\* BigLog.WriteN(b, n) with n up to LookupMaxN
LkWriteN == \E n \in 1..LookupMaxN : DoWriteN(Blob(nWrites), n, LookupMaxWrites, RWMaxSegments)

\* BigLog.WriteN(b, n) with b of one or two bytes or of none
IdxWriteN ==
    \E n \in 1..MaxN, b \in {Blob(nWrites), <<>>} :
        DoWriteN(b, n, LookupMaxWrites, RWMaxSegments)

\* segment.WriteN(b, n) called on the hot segment itself, with no
\* splitIfFull before it; a panic ends the process
SegmentWriteN ==
    /\ Open
    /\ nWrites < MaxWrites
    /\ \E n \in 1..MaxN :
       \E b \in {Blob(nWrites)} :
       \E h \in {HotSegOf(segs, hotSeg)} :
       \E w \in {segWriteN(h, disk[h.baseOffset], notifyCh[h.id], b, n, now)} :
           /\ disk' = [disk EXCEPT ![h.baseOffset] = w.file]
           /\ mtime' = ModTimes(mtime, disk, disk', now)
           /\ segs' = [segs EXCEPT ![SegIdx(segs, hotSeg)] = w.seg]
           /\ notifyCh' = [notifyCh EXCEPT ![h.id] = w.ch]
           /\ lastW' = IF w.err = NoErr THEN [off |-> absolute(h.NRO, h.baseOffset), n |-> n]
                       ELSE lastW
           /\ appended' = IF w.err = NoErr
                          THEN Append(appended, [off |-> absolute(h.NRO, h.baseOffset), n |-> n,
                                                 b |-> b, seg |-> h.id])
                          ELSE appended
           /\ hotSeg' = IF w.err = Panic THEN Nil ELSE hotSeg
           /\ lastOp' = Op("segment.WriteN", w.err, n, absolute(h.NRO, h.baseOffset))
    /\ nWrites' = nWrites + 1
    /\ UNCHANGED <<nextSegId, watchers, wch, readers, rdr, now>>
    /\ UNCHANGED <<topicVars, dispVars>>
    /\ UNCHANGED <<mb, strm, pts, fl, wr>>

\* BigLog.Split()
DoSplit(segCap) ==
    /\ Open
    /\ nextSegId < segCap
    /\ LET r == split(disk, segs, hotSeg, notifyCh, nextSegId)
       IN  /\ \E sw \in {IF r.err = NoErr THEN switchWriter(r.disk, segs, hotSeg, wr)
                          ELSE [disk |-> r.disk, wr |-> wr]} :
                /\ disk' = sw.disk
                /\ wr' = sw.wr
                /\ mtime' = ModTimes(mtime, disk, sw.disk, now)
           /\ segs' = r.segs
           /\ hotSeg' = r.hot
           /\ notifyCh' = r.chs
           /\ nextSegId' = IF r.err = NoErr THEN nextSegId + 1 ELSE nextSegId
           /\ lastOp' = Op("Split", r.err, 0, 0)
    /\ UNCHANGED <<watchers, wch, readers, rdr, now, nWrites, lastW>>
    /\ UNCHANGED <<topicVars, dispVars>>
    /\ UNCHANGED <<mb, appended, strm, pts, fl>>

Split == DoSplit(MaxSegments)

RWSplit == DoSplit(RWMaxSegments)

\* trim that drops the oldest segment from the list but leaves its files
trim_keepsFiles(d, ss) ==
    IF Len(ss) < 2 THEN [err |-> ErrLastSegment, disk |-> d, segs |-> ss]
    ELSE IF IsBusy(ss[1]) THEN [err |-> ErrSegmentBusy, disk |-> d, segs |-> ss]
    ELSE [err |-> NoErr, disk |-> d, segs |-> Tail(ss)]

\* trim that deletes the oldest segment whether or not a reader is on it
trim_ignoresReaders(d, ss) ==
    IF Len(ss) < 2 THEN [err |-> ErrLastSegment, disk |-> d, segs |-> ss]
    ELSE [err |-> NoErr,
          disk |-> [x \in DOMAIN d \ {ss[1].baseOffset} |-> d[x]],
          segs |-> Tail(ss)]

\* BigLog.Trim(): segs[0].Delete(false), then drop it from the list
trim(d, ss) ==
    IF Len(ss) < 2 THEN [err |-> ErrLastSegment, disk |-> d, segs |-> ss]
    ELSE IF IsBusy(ss[1]) THEN [err |-> ErrSegmentBusy, disk |-> d, segs |-> ss]
    ELSE [err |-> NoErr,
          disk |-> [x \in DOMAIN d \ {ss[1].baseOffset} |-> d[x]],
          segs |-> Tail(ss)]

Trim ==
    /\ Open
    /\ LET r == trim(disk, segs)
       IN  /\ disk' = r.disk
           /\ mtime' = ModTimes(mtime, disk, r.disk, now)
           /\ segs' = r.segs
           /\ lastOp' = Op("Trim", r.err, 0, 0)
    /\ UNCHANGED <<hotSeg, nextSegId, notifyCh, watchers, wch, readers, rdr, now,
                   nWrites, lastW>>
    /\ UNCHANGED <<topicVars, dispVars>>
    /\ UNCHANGED <<mb, appended, strm, pts, fl, wr>>

\* ----------------------------------------------------------------- readers
\* Reader.nextSeg / IndexReader.nextSeg: the segment after the reader's one
nextSeg(ss, s) ==
    LET i == indexOfSegment(ss, s.baseOffset)
    IN  IF i < 0 \/ i = Len(ss) - 1 THEN Nil ELSE ss[i + 2].id

\* setSegment: move one reader count from the previous segment to the new one
setSegment(ss, prev, id) ==
    [k \in 1..Len(ss) |->
        IF ss[k].id = id /\ ss[k].id = prev THEN ss[k]
        ELSE IF ss[k].id = id THEN [ss[k] EXCEPT !.readers = @ + 1]
        ELSE IF ss[k].id = prev THEN [ss[k] EXCEPT !.readers = @ - 1]
        ELSE ss[k]]

\* NewReader(bl, from): locateOffset, Lookup, setSegment; addReader is done by the action
NewReaderAt(d, ss, from) ==
    LET loc == locateOffset(ss, from)
    IN  IF loc.err # NoErr THEN [err |-> loc.err, ret |-> -1, seg |-> Nil, dFO |-> 0, iFO |-> 0]
        ELSE LET s == ss[SegIdx(ss, loc.seg)]
                 l == Lookup(s, d[s.baseOffset].index, loc.RO)
             IN  IF l.err = ErrEmbeddedOffset
                 THEN [err |-> l.err, ret |-> from - (loc.RO - l.fRO), seg |-> s.id,
                       dFO |-> l.dFO, iFO |-> l.iFO]
                 ELSE IF l.err # NoErr
                 THEN [err |-> l.err, ret |-> -1, seg |-> Nil, dFO |-> 0, iFO |-> 0]
                 ELSE [err |-> NoErr, ret |-> from, seg |-> s.id, dFO |-> l.dFO, iFO |-> l.iFO]

Min(a, b) == IF a < b THEN a ELSE b

SubSeqFrom(q, from, n) == SubSeq(q, from + 1, from + n)

\* Reader.Read(b) with len(b) = L: the loop over ReadAt and nextSeg.
\* Returns the bytes read, the error and the reader's new segment and dFO.
RECURSIVE readLoop(_, _, _, _, _, _, _)
readLoop(d, ss, segId, dFO, L, acc, fuel) ==
    LET s == ss[SegIdx(ss, segId)]
        data == d[s.baseOffset].data
        want == L - Len(acc)
        n == IF dFO >= Len(data) THEN 0 ELSE Min(want, Len(data) - dFO)
        got == acc \o SubSeqFrom(data, dFO, n)
        atEOF == n < want
        nxt == nextSeg(ss, s)
    IN  IF ~atEOF THEN [bytes |-> got, err |-> NoErr, seg |-> segId, dFO |-> dFO + n]
        ELSE IF nxt = Nil \/ fuel = 0
        THEN [bytes |-> got, err |-> EOF, seg |-> segId, dFO |-> dFO + n]
        ELSE readLoop(d, ss, nxt, 0, L, got, fuel - 1)

ReaderRead(d, ss, segId, dFO, L) == readLoop(d, ss, segId, dFO, L, <<>>, Len(ss))

BigBuf == 64

\* the byte stream a Reader opened at offset o delivers until EOF
ReadAll(d, ss, o) ==
    LET r == NewReaderAt(d, ss, o)
    IN  IF r.err \notin {NoErr, ErrEmbeddedOffset} THEN [err |-> r.err, ret |-> -1, bytes |-> <<>>]
        ELSE [err |-> NoErr, ret |-> r.ret,
              bytes |-> ReaderRead(d, ss, r.seg, r.dFO, BigBuf).bytes]

\* ------------------------------------------------------------ message codec
PosCompver == 0

PosCRC32 == 1

PosPLenth == 5

PosPayload == 9

headerSize == PosPayload

CompressionNone == 1

CompressionGzip == 2

CompressionSnappy == 3

ErrCompression == "message: invalid compression type"
ErrShortBuffer == "short buffer"
ErrGzipHeader == "gzip: invalid header"
ErrSnappyCorrupt == "snappy: corrupt input"
ErrEndOfTopic == "netlog: end of topic"
ErrCRC == "netlog: checksum error"
Blocked == "blocked"

\* binary.BigEndian.PutUint32 and Uint32 over four cells
PutUint32(v) ==
    <<(v \div 16777216) % 256, (v \div 65536) % 256, (v \div 256) % 256, v % 256>>

Uint32(b) == ((b[1] * 256 + b[2]) * 256 + b[3]) * 256 + b[4]

RECURSIVE SumSeq(_)
SumSeq(q) == IF q = <<>> THEN 0 ELSE Head(q) + SumSeq(Tail(q))

RECURSIVE Concat(_)
Concat(qs) == IF qs = <<>> THEN <<>> ELSE Head(qs) \o Concat(Tail(qs))

Zeros(n) == [i \in 1..n |-> 0]

\* crc32.ChecksumIEEE, as a checksum over the cells' values and their count
ChecksumIEEE(p) == (31 * SumSeq(p) + 7 * Len(p) + 1) % 65521

MessageFromPayload(p) ==
    <<0>> \o PutUint32(ChecksumIEEE(p)) \o PutUint32(Len(p)) \o p

CompVer(m) == m[PosCompver + 1]

Compression(m) == CompVer(m) % 16

CRC32(m) == Uint32(SubSeq(m, PosCRC32 + 1, PosCRC32 + 4))

PLength(m) == Uint32(SubSeq(m, PosPLenth + 1, PosPLenth + 4))

Size(m) == PLength(m) + headerSize

Payload(m) == SubSeq(m, headerSize + 1, Len(m))

ChecksumOK(m) == ChecksumIEEE(Payload(m)) = CRC32(m)

\* the gzip and snappy streams: a magic cell, then the cells shifted
Gzip(b) == <<31>> \o [i \in 1..Len(b) |-> (b[i] + 1) % 256]

Gunzip(z) == [i \in 1..(Len(z) - 1) |-> (z[i + 1] + 255) % 256]

Snappy(b) == <<255>> \o [i \in 1..Len(b) |-> (b[i] + 2) % 256]

Unsnappy(z) == [i \in 1..(Len(z) - 1) |-> (z[i + 1] + 254) % 256]

\* MessageSet(msgs, comp): the messages written through the compressor,
\* wrapped by MessageFromPayload, compver set to comp
MessageSet(msgs, comp) ==
    Bind(Concat(msgs), LAMBDA raw :
    Bind(IF comp = CompressionNone THEN raw
         ELSE IF comp = CompressionGzip THEN Gzip(raw)
         ELSE Snappy(raw), LAMBDA buf :
      [MessageFromPayload(buf) EXCEPT ![PosCompver + 1] = comp]))

\* ReadMessage(r) on a bytes.Reader or a decompressing reader holding stream
ReadMessage(stream) ==
    IF stream = <<>> THEN [m |-> <<>>, err |-> EOF, rest |-> <<>>]
    ELSE IF Len(stream) < headerSize THEN [m |-> <<>>, err |-> ErrShortBuffer, rest |-> <<>>]
    ELSE Bind(PLength(SubSeq(stream, 1, headerSize)), LAMBDA plen :
         Bind(Min(plen, Len(stream) - headerSize), LAMBDA avail :
           [m |-> SubSeq(stream, 1, headerSize + avail) \o Zeros(plen - avail),
            err |-> NoErr,
            rest |-> SubSeq(stream, headerSize + avail + 1, Len(stream))]))

RECURSIVE readMessages(_, _)
readMessages(stream, acc) ==
    Bind(ReadMessage(stream), LAMBDA r :
      IF r.err = EOF THEN [msgs |-> acc, err |-> NoErr]
      ELSE IF r.err # NoErr THEN [msgs |-> acc, err |-> r.err]
      ELSE Bind(Append(acc, r.m), LAMBDA acc1 : readMessages(r.rest, acc1)))

unpack(data, comp) ==
    IF comp = 0 \/ comp = CompressionNone THEN readMessages(data, <<>>)
    ELSE IF comp = CompressionGzip
    THEN IF data = <<>> \/ data[1] # 31 THEN [msgs |-> <<>>, err |-> ErrGzipHeader]
         ELSE Bind(Gunzip(data), LAMBDA raw : readMessages(raw, <<>>))
    ELSE IF comp = CompressionSnappy
    THEN IF data = <<>> THEN [msgs |-> <<>>, err |-> NoErr]
         ELSE IF data[1] # 255 THEN [msgs |-> <<>>, err |-> ErrSnappyCorrupt]
         ELSE Bind(Unsnappy(data), LAMBDA raw : readMessages(raw, <<>>))
    ELSE [msgs |-> <<>>, err |-> ErrCompression]

\* Unpack(set); reading the compver of an empty slice, or the payload of one
\* shorter than a header, is an index out of range
Unpack(set) ==
    IF set = <<>> THEN [msgs |-> <<>>, err |-> Panic]
    ELSE IF Compression(set) > 0
    THEN IF Len(set) < headerSize THEN [msgs |-> <<>>, err |-> Panic]
         ELSE Bind(Payload(set), LAMBDA p : unpack(p, Compression(set)))
    ELSE unpack(set, CompressionNone)

\* ------------------------------------------------- IndexReader and Scanner
\* IndexReader.jumpSeg
jumpSeg(ss, segId, iFO) ==
    LET s == ss[SegIdx(ss, segId)]
    IN  IF iFO < s.NiFO THEN [err |-> NoErr, seg |-> segId, iFO |-> iFO]
        ELSE IF nextSeg(ss, s) = Nil THEN [err |-> EOF, seg |-> segId, iFO |-> iFO]
        ELSE [err |-> NoErr, seg |-> nextSeg(ss, s), iFO |-> 0]

\* the Entry ReadEntries builds from the index entry at iFO and the one after it
entryAt(index, baseOffset, iFO) ==
    [nil |-> FALSE,
     Timestamp |-> readEntry(index, iFO).TS,
     Offset |-> absolute(readEntry(index, iFO).RO, baseOffset),
     ODelta |-> (readEntry(index, iFO + iw).RO - readEntry(index, iFO).RO) % Uint32Mod,
     Size |-> readEntry(index, iFO + iw).dFO - readEntry(index, iFO).dFO]

\* IndexReader.ReadEntries(n): the loop, entry by entry
RECURSIVE readEntriesLoop(_, _, _, _, _, _)
readEntriesLoop(d, ss, segId, iFO, n, acc) ==
    IF n = 0 THEN [entries |-> acc, err |-> NoErr, seg |-> segId, iFO |-> iFO]
    ELSE Bind(jumpSeg(ss, segId, iFO), LAMBDA j :
           IF j.err # NoErr
           THEN [entries |-> acc, err |-> j.err, seg |-> segId, iFO |-> iFO]
           ELSE Bind(Append(acc, entryAt(d[ss[SegIdx(ss, j.seg)].baseOffset].index,
                                         ss[SegIdx(ss, j.seg)].baseOffset, j.iFO)),
                     LAMBDA acc1 : readEntriesLoop(d, ss, j.seg, j.iFO + iw, n - 1, acc1)))

ReadEntries(d, ss, segId, iFO, n) == readEntriesLoop(d, ss, segId, iFO, n, <<>>)

NilEntry == [nil |-> TRUE, Timestamp |-> 0, Offset |-> 0, ODelta |-> 0, Size |-> 0]

\* the Scanner NewScanner builds on a data reader r and an index reader ir
newScannerRec(r, ir) ==
    [rseg |-> r.seg, dFO |-> r.dFO, iseg |-> ir.seg, iFO |-> ir.iFO,
     entries |-> <<>>, entry |-> NilEntry, token |-> <<>>, tokenNil |-> TRUE, err |-> NoErr,
     bufLen |-> ScannerBufSize, start |-> 0, data |-> <<>>]

\* biglog.NewScanner(bl, from): NewReader, NewIndexReader at the reader's
\* returned offset, a fresh buffer.  leaked tells that the data reader was
\* opened and left registered when NewIndexReader failed.
NewScanner(d, ss, from) ==
    Bind(NewReaderAt(d, ss, from), LAMBDA r :
      IF r.err \notin {NoErr, ErrEmbeddedOffset}
      THEN [ok |-> FALSE, err |-> r.err, leaked |-> Nil, dFO |-> 0]
      ELSE Bind(NewReaderAt(d, ss, r.ret), LAMBDA ir :
             IF ir.err # NoErr
             THEN [ok |-> FALSE, err |-> ir.err, leaked |-> r.seg, dFO |-> r.dFO]
             ELSE [ok |-> TRUE, err |-> r.err, sc |-> newScannerRec(r, ir)]))

\* Scanner.loadEntries
loadEntries(d, ss, sc) ==
    Bind(ReadEntries(d, ss, sc.iseg, sc.iFO, 2), LAMBDA r :
      [sc |-> [sc EXCEPT !.entries = r.entries, !.iseg = r.seg, !.iFO = r.iFO,
                         !.err = IF r.err \notin {NoErr, EOF} THEN r.err ELSE NoErr],
       ss |-> setSegment(ss, sc.iseg, r.seg)])

\* Scanner.Scan, the top of the for loop: extract a token if there is data
extract(sc) ==
    LET size == sc.entries[1].Size
    IN  IF ~(Len(sc.data) > 0 \/ sc.err # NoErr) THEN [fits |-> FALSE, sc |-> sc]
        ELSE IF size > Len(sc.data)
        THEN [fits |-> FALSE,
              sc |-> [sc EXCEPT !.entry = NilEntry, !.token = <<>>, !.tokenNil = TRUE]]
        ELSE [fits |-> TRUE,
              sc |-> [sc EXCEPT !.entry = sc.entries[1],
                                !.token = SubSeq(sc.data, 1, size),
                                !.tokenNil = FALSE,
                                !.entries = Tail(sc.entries),
                                !.start = sc.start + size,
                                !.data = SubSeq(sc.data, size + 1, Len(sc.data))]]

\* Scanner.Scan: shift the data to the beginning of the buffer
shiftBuf(sc) ==
    IF sc.start > 0 /\ (sc.start + Len(sc.data) = sc.bufLen \/ sc.start > sc.bufLen \div 2)
    THEN [sc EXCEPT !.start = 0] ELSE sc

\* Scanner.Scan: double a full buffer (maxBufSize = 0: no limit)
growBuf(sc) ==
    IF sc.start + Len(sc.data) = sc.bufLen
    THEN [sc EXCEPT !.bufLen = 2 * sc.bufLen, !.start = 0] ELSE sc

\* Scanner.Scan: the for loop (extract, shift, grow, read)
RECURSIVE scanLoop(_, _, _)
scanLoop(d, ss, sc) ==
    Bind(extract(sc), LAMBDA x :
      IF x.fits THEN [sc |-> x.sc, ss |-> ss, ok |-> TRUE]
      ELSE Bind(shiftBuf(x.sc), LAMBDA sc2 :
           Bind(growBuf(sc2), LAMBDA sc3 :
           Bind(ReaderRead(d, ss, sc3.rseg, sc3.dFO, sc3.bufLen - (sc3.start + Len(sc3.data))),
                LAMBDA rd :
           Bind([sc3 EXCEPT !.data = sc3.data \o rd.bytes, !.rseg = rd.seg,
                            !.dFO = rd.dFO, !.err = rd.err], LAMBDA sc4 :
           Bind(setSegment(ss, sc3.rseg, rd.seg), LAMBDA ss4 :
             IF rd.bytes = <<>> THEN [sc |-> sc4, ss |-> ss4, ok |-> FALSE]
             ELSE scanLoop(d, ss4, sc4)))))))

\* Scanner.Scan
ScannerScan(d, ss, sc) ==
    IF sc.entries = <<>>
    THEN Bind(loadEntries(d, ss, sc), LAMBDA l :
           IF l.sc.err # NoErr \/ l.sc.entries = <<>>
           THEN [sc |-> l.sc, ss |-> l.ss, ok |-> FALSE]
           ELSE scanLoop(d, l.ss, l.sc))
    ELSE scanLoop(d, ss, sc)

\* Scanner.Err
ScannerErr(sc) == IF sc.err = EOF THEN NoErr ELSE sc.err

\* Scanner.Offset and Scanner.ODelta
ScannerOffset(sc) == IF sc.entry.nil THEN 0 ELSE sc.entry.Offset

ScannerODelta(sc) == IF sc.entry.nil THEN 0 ELSE sc.entry.ODelta

\* ------------------------------------------------------- BLTopicScanner
\* one turn of the loop of BLTopicScanner.Scan after ts.scan(ctx) returned s
\* for scanner t; again tells that the loop goes round once more
scanTurn(t, s, wait) ==
    Bind([t EXCEPT !.sc = s.sc], LAMBDA t1 :
    Bind([t1 EXCEPT !.last = ScannerOffset(s.sc)], LAMBDA t2 :
      IF s.ok /\ ScannerODelta(s.sc) = 1
      THEN [again |-> FALSE, t |-> t2, ss |-> s.ss, m |-> s.sc.token, offset |-> t2.last,
            err |-> NoErr]
      ELSE IF ~s.ok
      THEN [again |-> FALSE, t |-> t1, ss |-> s.ss, m |-> <<>>, offset |-> -1,
            err |-> IF ScannerErr(s.sc) # NoErr THEN ScannerErr(s.sc)
                    ELSE IF wait THEN Blocked ELSE ErrEndOfTopic]
      ELSE Bind(Unpack(s.sc.token), LAMBDA up :
             IF up.err = Panic
             THEN [again |-> FALSE, t |-> t2, ss |-> s.ss, m |-> <<>>, offset |-> -1,
                   err |-> Panic]
             ELSE IF ScannerErr(s.sc) # NoErr
             THEN [again |-> FALSE, t |-> [t2 EXCEPT !.messages = up.msgs], ss |-> s.ss,
                   m |-> <<>>, offset |-> -1, err |-> ScannerErr(s.sc)]
             ELSE [again |-> TRUE, t |-> [t2 EXCEPT !.messages = up.msgs], ss |-> s.ss,
                   m |-> <<>>, offset |-> -1, err |-> NoErr])))

\* BLTopicScanner.Scan(ctx).  wait tells whether ctx is still live when the
\* scanner finds nothing to read: a live context suspends the call (Blocked),
\* a done one ends it with ErrEndOfTopic.
RECURSIVE tsScan(_, _, _, _)
tsScan(d, ss, t, wait) ==
    IF t.messages # <<>>
    THEN [t |-> [t EXCEPT !.last = t.last + 1, !.messages = Tail(t.messages)],
          ss |-> ss, m |-> Head(t.messages), offset |-> t.last, err |-> NoErr]
    ELSE Bind(ScannerScan(d, ss, t.sc), LAMBDA s :
         Bind(scanTurn(t, s, wait), LAMBDA r :
           IF r.again THEN tsScan(d, r.ss, r.t, wait)
           ELSE [t |-> r.t, ss |-> r.ss, m |-> r.m, offset |-> r.offset, err |-> r.err]))

\* BLTopicScanner.scanForward(target): Scan until the next offset is target
RECURSIVE scanForward(_, _, _, _)
scanForward(d, ss, t, target) ==
    Bind(tsScan(d, ss, t, TRUE), LAMBDA r :
      IF r.err \in {Panic, Blocked} THEN r
      ELSE IF r.offset + 1 = target THEN r
      ELSE IF r.err # NoErr THEN r
      ELSE scanForward(d, r.ss, r.t, target))

\* BLTopicScanner.next: the offset Info reports as Next
next(ss, t) ==
    Bind(IF t.last < 0 THEN t.from ELSE t.last + 1, LAMBDA n :
      IF ss[1].baseOffset > n THEN ss[1].baseOffset ELSE n)

\* Topic.Payload(offset) once ReadMessage has delivered entry from the reader,
\* ret being the first offset of the entry
payloadOf(entry, k) ==
    Bind(Unpack(entry), LAMBDA up :
      IF up.err # NoErr THEN [err |-> up.err, payload |-> <<>>]
      ELSE IF k >= Len(up.msgs) THEN [err |-> Panic, payload |-> <<>>]
      ELSE IF ~ChecksumOK(up.msgs[k + 1]) THEN [err |-> ErrCRC, payload |-> <<>>]
      ELSE [err |-> NoErr, payload |-> Payload(up.msgs[k + 1])])

\* Topic.Payload(offset): the error or payload, and the segment and position
\* the never-closed reader is left at
TopicPayload(d, ss, offset) ==
    Bind(NewReaderAt(d, ss, offset), LAMBDA r :
      IF r.err \notin {NoErr, ErrEmbeddedOffset}
      THEN [err |-> r.err, payload |-> <<>>, seg |-> Nil, dFO |-> 0]
      ELSE Bind(ReaderRead(d, ss, r.seg, r.dFO, headerSize), LAMBDA hd :
             IF hd.err # NoErr
             THEN [err |-> hd.err, payload |-> <<>>, seg |-> hd.seg, dFO |-> hd.dFO]
             ELSE Bind(ReaderRead(d, ss, hd.seg, hd.dFO, PLength(hd.bytes)), LAMBDA bd :
                  Bind(payloadOf(hd.bytes \o bd.bytes
                                   \o Zeros(PLength(hd.bytes) - Len(bd.bytes)),
                                 offset - r.ret), LAMBDA p :
                    [err |-> p.err, payload |-> p.payload, seg |-> bd.seg, dFO |-> bd.dFO]))))

\* NewReader(bl, from)
NewReader ==
    /\ Open
    /\ Len(rdr) < MaxReaders
    /\ \E from \in Oldest..(Latest + 1) :
         LET r == NewReaderAt(disk, segs, from)
             ok == r.err \in {NoErr, ErrEmbeddedOffset}
             id == Len(rdr) + 1
         IN  /\ segs' = IF ok THEN setSegment(segs, Nil, r.seg) ELSE segs
             /\ rdr' = IF ok THEN Append(rdr, [kind |-> "data", seg |-> r.seg, pos |-> r.dFO,
                                               open |-> TRUE, from |-> r.ret, got |-> <<>>])
                       ELSE rdr
             /\ readers' = IF ok THEN readers \cup {id} ELSE readers
             /\ lastOp' = Op("NewReader", r.err, from, r.ret)
    /\ UNCHANGED <<disk, hotSeg, nextSegId, notifyCh, watchers, wch, now, nWrites, lastW>>
    /\ UNCHANGED <<topicVars, dispVars>>
    /\ UNCHANGED <<mb, appended, strm, pts, fl, wr, mtime>>

\* Reader.Read(b) with len(b) = L; got collects what the reader has delivered
DoRead(L) ==
    /\ Open
    /\ \E id \in readers :
         /\ rdr[id].kind = "data"
         /\ HasSeg(segs, rdr[id].seg)
         /\ \E r \in {ReaderRead(disk, segs, rdr[id].seg, rdr[id].pos, L)} :
                /\ segs' = setSegment(segs, rdr[id].seg, r.seg)
                /\ rdr' = [rdr EXCEPT ![id] = [@ EXCEPT !.seg = r.seg, !.pos = r.dFO,
                                                        !.got = @ \o r.bytes]]
                /\ lastOp' = Op("Read", r.err, id, Len(r.bytes))
    /\ UNCHANGED <<disk, hotSeg, nextSegId, notifyCh, watchers, wch, readers, now,
                   nWrites, lastW>>
    /\ UNCHANGED <<topicVars, dispVars>>
    /\ UNCHANGED <<mb, appended, strm, pts, fl, wr, mtime>>

\* one Read with a buffer larger than the log
ReadToEOF == DoRead(BigBuf)

\* one Read with a small buffer
Read == DoRead(ReadBuf)

\* Reader.Close()
CloseReader ==
    /\ Open
    /\ \E id \in readers :
         /\ rdr[id].kind = "data"
         /\ HasSeg(segs, rdr[id].seg)
         /\ segs' = setSegment(segs, rdr[id].seg, Nil)
         /\ rdr' = [rdr EXCEPT ![id] = [kind |-> "data", seg |-> Nil, pos |-> 0, open |-> FALSE,
                                          from |-> 0, got |-> <<>>]]
         /\ readers' = readers \ {id}
         /\ lastOp' = Op("CloseReader", NoErr, id, 0)
    /\ UNCHANGED <<disk, hotSeg, nextSegId, notifyCh, watchers, wch, now, nWrites, lastW>>
    /\ UNCHANGED <<topicVars, dispVars>>
    /\ UNCHANGED <<mb, appended, strm, pts, fl, wr, mtime>>

\* ------------------------------------------------- NewReader, step by step
\* what os.File.ReadAt returns on a file that was closed
ErrFileClosed == "file already closed"

\* NewReader(bl, from) up to the return of locateOffset, which takes no lock:
\* the goroutine holds the segment it located and the offset inside it
NewReaderLocate ==
    /\ Open
    /\ fl.pc = "none"
    /\ Len(rdr) < MaxReaders
    /\ \E from \in Oldest..(Latest + 1) :
         LET loc == locateOffset(segs, from)
         IN  IF loc.err # NoErr
             THEN /\ lastOp' = Op("NewReader", loc.err, from, -1)
                  /\ fl' = fl
             ELSE LET s == segs[SegIdx(segs, loc.seg)]
                  IN  /\ fl' = [pc |-> "located", from |-> from, RO |-> loc.RO, seg |-> s,
                                index |-> disk[s.baseOffset].index]
                      /\ lastOp' = Op("locateOffset", NoErr, from, loc.RO)
    /\ UNCHANGED <<disk, segs, hotSeg, nextSegId, notifyCh, watchers, wch, readers, rdr, now,
                   nWrites, lastW>>
    /\ UNCHANGED <<topicVars, dispVars>>
    /\ UNCHANGED <<mb, appended, strm, pts, wr, mtime>>

\* the rest of NewReader: seg.Lookup(RO), setSegment(seg), addReader. The
\* segment is the one the goroutine located, in the list or not: a deleted
\* segment keeps its mapped index and its readers count, and has no files.
NewReaderAttach ==
    /\ Open
    /\ fl.pc = "located"
    /\ LET live == HasSeg(segs, fl.seg.id)
           s == IF live THEN segs[SegIdx(segs, fl.seg.id)] ELSE fl.seg
           index == IF live THEN disk[s.baseOffset].index ELSE fl.index
           l == Lookup(s, index, fl.RO)
           ok == l.err \in {NoErr, ErrEmbeddedOffset}
           ret == IF l.err = ErrEmbeddedOffset THEN fl.from - (fl.RO - l.fRO)
                  ELSE IF ok THEN fl.from ELSE -1
           id == Len(rdr) + 1
       IN  /\ segs' = IF ok THEN setSegment(segs, Nil, s.id) ELSE segs
           /\ rdr' = IF ok THEN Append(rdr, [kind |-> "data", seg |-> s.id, pos |-> l.dFO,
                                             open |-> TRUE, from |-> ret, got |-> <<>>])
                     ELSE rdr
           /\ readers' = IF ok THEN readers \cup {id} ELSE readers
           /\ lastOp' = Op("NewReader", l.err, fl.from, ret)
    /\ fl' = NoCall
    /\ UNCHANGED <<disk, hotSeg, nextSegId, notifyCh, watchers, wch, now, nWrites, lastW>>
    /\ UNCHANGED <<topicVars, dispVars>>
    /\ UNCHANGED <<mb, appended, strm, pts, wr, mtime>>

\* Reader.Read on a reader whose segment was deleted: ReadAt on the closed
\* data file fails, the loop breaks with that error and no bytes
ReadRemoved ==
    /\ Open
    /\ \E id \in readers :
         /\ rdr[id].kind = "data"
         /\ rdr[id].open
         /\ ~HasSeg(segs, rdr[id].seg)
         /\ lastOp' = Op("Read", ErrFileClosed, id, 0)
    /\ UNCHANGED <<disk, segs, hotSeg, nextSegId, notifyCh, watchers, wch, readers, rdr, now,
                   nWrites, lastW>>
    /\ UNCHANGED <<topicVars, dispVars>>
    /\ UNCHANGED <<mb, appended, strm, pts, fl, wr, mtime>>

\* ---------------------------------------------------- Read, step by step
\* segment.ReadAt(b, off) with len(b) = want: the bytes and whether io.EOF
ReadAt(data, off, want) ==
    LET n == IF off >= Len(data) THEN 0 ELSE Min(want, Len(data) - off)
    IN  [bytes |-> SubSeqFrom(data, off, n), eof |-> n < want]

\* one pass of the loop of Reader.Read from r.seg.ReadAt on: the call returns
\* unless ReadAt gave io.EOF, and then stands before nextSeg with the bytes it has
readAtStep(id, L, acc) ==
    LET s == segs[SegIdx(segs, rdr[id].seg)]
        r == ReadAt(disk[s.baseOffset].data, rdr[id].pos, L - Len(acc))
    IN  IF r.eof
        THEN /\ rdr' = [rdr EXCEPT ![id] = [@ EXCEPT !.pos = @ + Len(r.bytes)]]
             /\ fl' = [pc |-> "eof", id |-> id, L |-> L, acc |-> acc \o r.bytes]
             /\ lastOp' = Op("ReadAt", EOF, id, Len(r.bytes))
        ELSE /\ rdr' = [rdr EXCEPT ![id] = [@ EXCEPT !.pos = @ + Len(r.bytes),
                                                     !.got = @ \o acc \o r.bytes]]
             /\ fl' = NoCall
             /\ lastOp' = Op("Read", NoErr, id, Len(acc) + Len(r.bytes))

\* Reader.Read(b) up to the return of the first ReadAt
ReadStart ==
    /\ Open
    /\ fl.pc = "none"
    /\ \E id \in readers, L \in {ReadBuf, BigBuf} :
         /\ rdr[id].kind = "data"
         /\ HasSeg(segs, rdr[id].seg)
         /\ readAtStep(id, L, <<>>)
    /\ UNCHANGED <<disk, segs, hotSeg, nextSegId, notifyCh, watchers, wch, readers, now,
                   nWrites, lastW>>
    /\ UNCHANGED <<topicVars, dispVars>>
    /\ UNCHANGED <<mb, appended, strm, pts, wr, mtime>>

\* Reader.Read after an io.EOF of ReadAt: nextSeg() on the list of segments
\* as it is now; no next segment ends the call with io.EOF, a next segment
\* is entered at dFO 0 and read
ReadNext ==
    /\ Open
    /\ fl.pc = "eof"
    /\ LET id == fl.id
           nxt == nextSeg(segs, segs[SegIdx(segs, rdr[id].seg)])
       IN  IF nxt = Nil
           THEN /\ rdr' = [rdr EXCEPT ![id] = [@ EXCEPT !.got = @ \o fl.acc]]
                /\ segs' = segs
                /\ fl' = NoCall
                /\ lastOp' = Op("Read", EOF, id, Len(fl.acc))
           ELSE LET r == ReadAt(disk[segs[SegIdx(segs, nxt)].baseOffset].data, 0,
                                fl.L - Len(fl.acc))
                IN  /\ segs' = setSegment(segs, rdr[id].seg, nxt)
                    /\ IF r.eof
                       THEN /\ rdr' = [rdr EXCEPT ![id] = [@ EXCEPT !.seg = nxt,
                                                                    !.pos = Len(r.bytes)]]
                            /\ fl' = [fl EXCEPT !.acc = @ \o r.bytes]
                            /\ lastOp' = Op("ReadAt", EOF, id, Len(r.bytes))
                       ELSE /\ rdr' = [rdr EXCEPT ![id] = [@ EXCEPT !.seg = nxt,
                                                                    !.pos = Len(r.bytes),
                                                                    !.got = @ \o fl.acc \o r.bytes]]
                            /\ fl' = NoCall
                            /\ lastOp' = Op("Read", NoErr, id, Len(fl.acc) + Len(r.bytes))
    /\ UNCHANGED <<disk, hotSeg, nextSegId, notifyCh, watchers, wch, readers, now,
                   nWrites, lastW>>
    /\ UNCHANGED <<topicVars, dispVars>>
    /\ UNCHANGED <<mb, appended, strm, pts, wr, mtime>>

\* BigLog.Write(b) with up to LookupMaxWrites writes
LkWrite == DoWriteN(Blob(nWrites), 1, LookupMaxWrites, RWMaxSegments)

\* ------------------------------------------- WriteN under an IndexReader
\* BigLog.WriteN(b, n) under bl.mu up to the atomic.AddUint32 of updateIndex:
\* splitIfFull, the data written, the timestamp written, NRO, NdFO and NiFO
\* advanced; the entry at the new NiFO still holds what it held
WriteNAdvance ==
    /\ Open
    /\ fl.pc = "none"
    /\ nWrites < LookupMaxWrites
    /\ IsFull(HotSegOf(segs, hotSeg)) => nextSegId < RWMaxSegments
    /\ \E n \in 1..MaxN :
       \E b \in {Blob(nWrites)} :
       \E r \in {writeN(disk, segs, hotSeg, notifyCh, nextSegId, b, n, now)} :
       \E th \in {throughWriter(disk, segs, hotSeg, wr, r, b)} :
       \E h \in {r.segs[SegIdx(r.segs, r.hot)]} :
       \E before \in {IF r.hot = hotSeg THEN disk[h.baseOffset].index
                      ELSE r.disk[h.baseOffset].index} :
           /\ r.err = NoErr
           /\ disk' = [th.disk EXCEPT ![h.baseOffset].index[h.NiFO \div iw] =
                                         before[h.NiFO \div iw]]
           /\ wr' = th.wr
           /\ mtime' = ModTimes(mtime, disk, th.disk, now)
           /\ segs' = r.segs
           /\ hotSeg' = r.hot
           /\ notifyCh' = [r.chs EXCEPT ![r.hot] = IF r.hot = hotSeg THEN notifyCh[r.hot]
                                                   ELSE NewCh]
           /\ nextSegId' = IF r.hot # hotSeg THEN nextSegId + 1 ELSE nextSegId
           /\ lastW' = [off |-> r.off, n |-> n]
           /\ appended' = Append(appended, [off |-> r.off, n |-> n, b |-> b, seg |-> r.hot])
           /\ fl' = [pc |-> "added", NiFO |-> h.NiFO, NRO |-> h.NRO, NdFO |-> h.NdFO,
                     base |-> h.baseOffset, n |-> n, off |-> r.off]
           /\ lastOp' = Op("atomic.AddUint32", NoErr, n, r.off)
    /\ nWrites' = nWrites + 1
    /\ UNCHANGED <<watchers, wch, readers, rdr, now>>
    /\ UNCHANGED <<topicVars, dispVars>>
    /\ UNCHANGED <<mb, strm, pts>>

\* writeEntry, first half: enc.PutUint32(entry[0:ow], relativeOffset)
WriteNPutRO ==
    /\ fl.pc = "added"
    /\ disk' = [disk EXCEPT ![fl.base].index[fl.NiFO \div iw].RO = fl.NRO]
    /\ fl' = [fl EXCEPT !.pc = "ro"]
    /\ lastOp' = Op("PutUint32", NoErr, fl.n, fl.off)
    /\ UNCHANGED <<segs, hotSeg, nextSegId, notifyCh, watchers, wch, readers, rdr, now,
                   nWrites, lastW>>
    /\ UNCHANGED <<topicVars, dispVars>>
    /\ UNCHANGED <<mb, appended, strm, pts, wr, mtime>>

\* writeEntry, second half: enc.PutUint64(entry[tw:iw], dataFileOffset), then
\* the notification, and WriteN returns
WriteNPutDFO ==
    /\ fl.pc = "ro"
    /\ disk' = [disk EXCEPT ![fl.base].index[fl.NiFO \div iw].dFO = fl.NdFO]
    /\ notifyCh' = [notifyCh EXCEPT ![hotSeg] = IF @.closed THEN @ ELSE [@ EXCEPT !.len = 1]]
    /\ fl' = NoCall
    /\ lastOp' = Op("WriteN", NoErr, fl.n, fl.off)
    /\ UNCHANGED <<segs, hotSeg, nextSegId, watchers, wch, readers, rdr, now, nWrites, lastW>>
    /\ UNCHANGED <<topicVars, dispVars>>
    /\ UNCHANGED <<mb, appended, strm, pts, wr, mtime>>

\* NewIndexReader(bl, from)
NewIndexReader ==
    /\ Open
    /\ fl.pc = "none"
    /\ Len(rdr) < MaxReaders
    /\ \E from \in Oldest..(Latest + 1) :
         LET r == NewReaderAt(disk, segs, from)
             ok == r.err \in {NoErr, ErrEmbeddedOffset}
             id == Len(rdr) + 1
         IN  /\ segs' = IF ok THEN setSegment(segs, Nil, r.seg) ELSE segs
             /\ rdr' = IF ok THEN Append(rdr, [kind |-> "index", seg |-> r.seg, pos |-> r.iFO,
                                               open |-> TRUE, from |-> r.ret, got |-> <<>>])
                       ELSE rdr
             /\ readers' = IF ok THEN readers \cup {id} ELSE readers
             /\ lastOp' = Op("NewIndexReader", r.err, from, r.ret)
    /\ UNCHANGED <<disk, hotSeg, nextSegId, notifyCh, watchers, wch, now, nWrites, lastW>>
    /\ UNCHANGED <<topicVars, dispVars>>
    /\ UNCHANGED <<mb, appended, strm, pts, fl, wr, mtime>>

\* IndexReader.ReadEntries(1). jumpSeg compares r.iFO with the NiFO it loads
\* atomically and takes no lock unless it has to look for the next segment;
\* nextSeg waits for the writer that holds bl.mu
IndexReadEntries ==
    /\ Open
    /\ \E id \in readers :
         /\ rdr[id].kind = "index"
         /\ fl.pc = "none" \/ rdr[id].pos < segs[SegIdx(segs, rdr[id].seg)].NiFO
         /\ \E r \in {ReadEntries(disk, segs, rdr[id].seg, rdr[id].pos, 1)} :
              /\ segs' = setSegment(segs, rdr[id].seg, r.seg)
              /\ rdr' = [rdr EXCEPT ![id] = [@ EXCEPT !.seg = r.seg, !.pos = r.iFO,
                                                      !.got = @ \o r.entries]]
              /\ lastOp' = OpM("ReadEntries", r.err, id, Len(r.entries), r.entries)
    /\ UNCHANGED <<disk, hotSeg, nextSegId, notifyCh, watchers, wch, readers, now,
                   nWrites, lastW>>
    /\ UNCHANGED <<topicVars, dispVars>>
    /\ UNCHANGED <<mb, appended, strm, pts, fl, wr, mtime>>

\* ---------------------------------------------------------------- watchers
\* NewWatcher(bl): make(chan struct{}, 1) and addWatcher
NewWatcher ==
    /\ Open
    /\ Len(wch) < MaxWatchers
    /\ wch' = Append(wch, NewCh)
    /\ watchers' = watchers \cup {Len(wch) + 1}
    /\ lastOp' = Op("NewWatcher", NoErr, Len(wch) + 1, 0)
    /\ UNCHANGED <<disk, segs, hotSeg, nextSegId, notifyCh, readers, rdr, now, nWrites, lastW>>
    /\ UNCHANGED <<topicVars, dispVars>>
    /\ UNCHANGED <<mb, appended, strm, pts, fl, wr, mtime>>

\* Watcher.Close(): removeWatcher and close(wc)
CloseWatcher ==
    /\ Open
    /\ \E w \in watchers :
         /\ watchers' = watchers \ {w}
         /\ wch' = [wch EXCEPT ![w] = [@ EXCEPT !.closed = TRUE]]
         /\ lastOp' = Op("CloseWatcher", NoErr, w, 0)
    /\ UNCHANGED <<disk, segs, hotSeg, nextSegId, notifyCh, readers, rdr, now, nWrites, lastW>>
    /\ UNCHANGED <<topicVars, dispVars>>
    /\ UNCHANGED <<mb, appended, strm, pts, fl, wr, mtime>>

\* ------------------------------------------------------------ Close, Delete
\* close that looks at the readers only, not at the watchers
close_ignoresWatchers(ss, ws, rs, force) ==
    IF ~force /\ (rs # {} \/ \E k \in 1..Len(ss) : IsBusy(ss[k]))
    THEN [err |-> ErrBusy, segs |-> ss, hot |-> FALSE]
    ELSE [err |-> NoErr, segs |-> <<>>, hot |-> TRUE]

\* BigLog.close(force)
close(ss, ws, rs, force) ==
    IF ~force /\ (ws # {} \/ rs # {} \/ \E k \in 1..Len(ss) : IsBusy(ss[k]))
    THEN [err |-> ErrBusy, segs |-> ss, hot |-> FALSE]
    ELSE [err |-> NoErr, segs |-> <<>>, hot |-> TRUE]

\* BigLog.Close()
Close ==
    /\ Open
    /\ LET r == close(segs, watchers, readers, FALSE)
       IN  /\ segs' = r.segs
           /\ hotSeg' = IF r.hot THEN Nil ELSE hotSeg
           /\ lastOp' = OpM("Close", r.err, FALSE, 0, <<Oldest, Latest>>)
    /\ UNCHANGED <<disk, nextSegId, notifyCh, watchers, wch, readers, rdr, now, nWrites, lastW>>
    /\ UNCHANGED <<topicVars, dispVars>>
    /\ UNCHANGED <<mb, appended, strm, pts, fl, wr, mtime>>

\* BigLog.delete(force): close(force), then remove the directory
delete(d, ss, ws, rs, force) ==
    LET c == close(ss, ws, rs, force)
    IN  IF c.err # NoErr /\ ~force
        THEN [err |-> c.err, disk |-> d, segs |-> ss, hot |-> FALSE]
        ELSE [err |-> NoErr, disk |-> <<>>, segs |-> c.segs, hot |-> c.hot]

\* BigLog.Delete(force)
Delete ==
    /\ Open
    /\ \E force \in BOOLEAN :
         LET r == delete(disk, segs, watchers, readers, force)
         IN  /\ disk' = r.disk
             /\ mtime' = ModTimes(mtime, disk, r.disk, now)
             /\ segs' = r.segs
             /\ hotSeg' = IF r.hot THEN Nil ELSE hotSeg
             /\ lastOp' = Op("Delete", r.err, force, 0)
    /\ UNCHANGED <<nextSegId, notifyCh, watchers, wch, readers, rdr, now, nWrites, lastW>>
    /\ UNCHANGED <<topicVars, dispVars>>
    /\ UNCHANGED <<mb, appended, strm, pts, fl, wr>>

\* ------------------------------------------------------------ Open, SetOpts
\* sort.Sort(sort.StringSlice(indexes)): the names are the base offsets
\* printed with %020d, so name order is base offset order
RECURSIVE SortedBases(_)
SortedBases(S) ==
    IF S = {} THEN <<>>
    ELSE LET m == CHOOSE x \in S : \A y \in S : x <= y
         IN  <<m>> \o SortedBases(S \ {m})

\* segment.healthCheckPartialWrite: the data file is rebuilt from its first
\* NdFO bytes unless its size is NdFO; s.writer keeps the file it had
healthCheckPartialWrite(s, file) ==
    IF s.NdFO = Len(file.data) THEN [file |-> file, rebuilt |-> FALSE]
    ELSE [file |-> [file EXCEPT !.data = SubSeq(file.data, 1, Min(s.NdFO, Len(file.data)))],
          rebuilt |-> TRUE]

\* Open(dirPath): loadSegment for every index file, healthCheckPartialWrite
\* and setHotSeg for the last one
open(d) ==
    LET bases == SortedBases(DOMAIN d)
        ss == [k \in 1..Len(bases) |-> loadSegment(k - 1, bases[k], d[bases[k]])]
        hot == ss[Len(ss)]
        hc == healthCheckPartialWrite(hot, d[hot.baseOffset])
    IN  [disk |-> [d EXCEPT ![hot.baseOffset] = hc.file],
         segs |-> ss, hot |-> hot.id, rebuilt |-> hc.rebuilt]

\* what a process that has just opened the log holds in memory
Fresh ==
    /\ watchers' = {}
    /\ wch' = <<>>
    /\ readers' = {}
    /\ rdr' = <<>>
    /\ scanners' = <<>>
    /\ dpc' = "load"
    /\ dseg' = Nil
    /\ strm' = NoStreamer
    /\ fl' = NoCall

\* Open(dirPath) on the directory of a log that is not open
Reopen ==
    /\ ~Open
    /\ DOMAIN disk # {}
    /\ \E r \in {open(disk)} :
         /\ disk' = r.disk
         /\ segs' = r.segs
         /\ hotSeg' = r.hot
         /\ nextSegId' = Len(r.segs)
         /\ notifyCh' = [id \in 0..(Len(r.segs) - 1) |-> NewCh]
         /\ wr' = [PlainWriter EXCEPT !.orphan = IF r.rebuilt THEN {r.hot} ELSE {}]
         /\ mtime' = IF r.rebuilt THEN [mtime EXCEPT ![r.segs[Len(r.segs)].baseOffset] = now]
                     ELSE mtime
         /\ lastOp' = OpM("Open", NoErr, 0, IF r.rebuilt THEN 1 ELSE 0, lastOp.m)
    /\ Fresh
    /\ UNCHANGED <<now, nWrites, lastW, written, mb, appended, pts>>

\* the places where the process can stop inside segment.WriteN once write
\* has returned: before updateIndex, after its writeEntryTS, and inside its
\* writeEntry between the relative offset and the data file offset
CrashPoints == {"data", "ts", "ro"}

\* the hot segment's index when the process stops at point pt of updateIndex
crashedIndex(s, index, n, ts, pt) ==
    IF pt = "data" THEN index
    ELSE IF pt = "ts" THEN writeEntryTS(index, s.NiFO, ts)
    ELSE [writeEntryTS(index, s.NiFO, ts) EXCEPT ![(s.NiFO + iw) \div iw].RO = s.NRO + n]

\* the process stops inside BigLog.WriteN(b, n): the files keep what had
\* reached them, everything in memory is gone
CrashInWrite ==
    /\ Open
    /\ nWrites < MaxWrites
    /\ ~IsFull(HotSegOf(segs, hotSeg))
    /\ \E n \in 1..MaxN, pt \in CrashPoints :
       \E h \in {HotSegOf(segs, hotSeg)} :
       \E w \in {writerWrite(disk[h.baseOffset].data, wr, hotSeg, Blob(nWrites))} :
         /\ disk' = [disk EXCEPT ![h.baseOffset] =
                       [index |-> crashedIndex(h, disk[h.baseOffset].index, n, now, pt),
                        data |-> w.data]]
         /\ mtime' = ModTimes(mtime, disk, disk', now)
         /\ lastOp' = OpM("Crash", NoErr, n, 0, <<Oldest, Latest>>)
    /\ nWrites' = nWrites + 1
    /\ hotSeg' = Nil
    /\ segs' = <<>>
    /\ wr' = PlainWriter
    /\ Fresh
    /\ UNCHANGED <<nextSegId, notifyCh, now, lastW, written, mb, appended, pts>>

\* bl.SetOpts(BufioWriter(BufioSize)): takes effect at the next setHotSeg
SetOpts ==
    /\ Open
    /\ wr.size = 0
    /\ wr' = [wr EXCEPT !.size = BufioSize]
    /\ lastOp' = Op("SetOpts", NoErr, BufioSize, 0)
    /\ UNCHANGED <<disk, segs, hotSeg, nextSegId, notifyCh, watchers, wch, readers, rdr, now,
                   nWrites, lastW>>
    /\ UNCHANGED <<topicVars, dispVars>>
    /\ UNCHANGED <<mb, appended, strm, pts, fl, mtime>>

\* ------------------------------------------------------------ topic actions
\* the k-th message written to the topic: distinct payloads of one and two bytes
Msg(k) == MessageFromPayload(IF k % 2 = 0 THEN <<k + 1>> ELSE <<k + 1, k + 2>>)

\* Topic.Write(p) and Topic.WriteN(p, n) with no message buffer: BigLog.WriteN
DoTopicWrite(b, n, msgs) ==
    /\ Open
    /\ nWrites < TopicMaxWrites
    /\ IsFull(HotSegOf(segs, hotSeg)) => nextSegId < RWMaxSegments
    /\ LET r == writeN(disk, segs, hotSeg, notifyCh, nextSegId, b, n, now)
       IN  /\ \E th \in {throughWriter(disk, segs, hotSeg, wr, r, b)} :
                /\ disk' = th.disk
                /\ wr' = th.wr
                /\ mtime' = ModTimes(mtime, disk, th.disk, now)
           /\ segs' = r.segs
           /\ hotSeg' = r.hot
           /\ notifyCh' = r.chs
           /\ nextSegId' = IF r.hot # hotSeg THEN nextSegId + 1 ELSE nextSegId
           /\ lastW' = IF r.err = NoErr THEN [off |-> r.off, n |-> n] ELSE lastW
           /\ appended' = IF r.err = NoErr
                          THEN Append(appended, [off |-> r.off, n |-> n, b |-> b, seg |-> r.hot])
                          ELSE appended
           /\ written' = IF r.err = NoErr THEN written \o msgs ELSE written
           /\ lastOp' = Op("WriteN", r.err, n, r.off)
    /\ nWrites' = nWrites + 1
    /\ UNCHANGED <<watchers, wch, readers, rdr, now, scanners, dispVars>>
    /\ UNCHANGED <<mb, strm, pts, fl>>

\* one message
TopicWrite == DoTopicWrite(Msg(Len(written)), 1, <<Msg(Len(written))>>)

\* n messages as one entry: a raw sequence (comp = 0) or a packed message-set
TopicWriteN ==
    \E n \in 2..MaxN, comp \in 0..CompressionSnappy :
        LET msgs == [i \in 1..n |-> Msg(Len(written) + i - 1)]
        IN  DoTopicWrite(IF comp = 0 THEN Concat(msgs) ELSE MessageSet(msgs, comp), n, msgs)

\* n messages as one uncompressed message-set
TopicWriteSet ==
    \E n \in 2..MaxN :
        LET msgs == [i \in 1..n |-> Msg(Len(written) + i - 1)]
        IN  DoTopicWrite(MessageSet(msgs, CompressionNone), n, msgs)

\* newBLTopicScanner(t, ID, from): the scanner, its watcher wid and the
\* automatic scan forward to an embedded offset
newBLTopicScanner(d, ss, from, wid) ==
    Bind(NewScanner(d, ss, from), LAMBDA n :
      IF ~n.ok
      THEN [ok |-> FALSE, err |-> n.err, leaked |-> n.leaked, dFO |-> n.dFO,
            ss |-> IF n.leaked # Nil THEN setSegment(ss, Nil, n.leaked) ELSE ss]
      ELSE Bind(setSegment(setSegment(ss, Nil, n.sc.rseg), Nil, n.sc.iseg), LAMBDA segs1 :
           Bind([from |-> from, last |-> -1, messages |-> <<>>, sc |-> n.sc,
                 wc |-> wid, pc |-> "idle", returned |-> 0, lastRet |-> -1,
                 cancelled |-> FALSE], LAMBDA t0 :
           Bind(IF n.err = ErrEmbeddedOffset
                THEN scanForward(d, segs1, t0, from)
                ELSE [t |-> t0, ss |-> segs1, err |-> NoErr], LAMBDA f :
             [ok |-> TRUE, err |-> f.err, t |-> f.t, ss |-> f.ss]))))

\* newPersistentTopicScanner: the file is opened with O_RDWR|O_CREATE, so a
\* file that exists keeps its content; a new channel and persist goroutine
newPersistentTopicScanner(p, from) ==
    [p EXCEPT !.made = TRUE, !.oc = <<>>, !.closed = FALSE,
              !.calls = [c \in 1..MaxCallers |-> [pc |-> "idle", off |-> -1]],
              !.from0 = IF p.from0 < 0 THEN from ELSE @]

\* Topic.createScanner(ID, from, persist) -> NewTopicScanner
createScanner(from, persist) ==
    \E n \in {newBLTopicScanner(disk, segs, from, Len(wch) + 1)} :
      LET id == Len(rdr) + 1
          sr == [kind |-> "scanner", seg |-> Nil, pos |-> 0, open |-> TRUE]
      IN  /\ segs' = n.ss
          /\ IF ~n.ok
             THEN /\ rdr' = IF n.leaked # Nil
                            THEN Append(rdr, [kind |-> "data", seg |-> n.leaked, pos |-> n.dFO,
                                              open |-> TRUE])
                            ELSE rdr
                  /\ readers' = IF n.leaked # Nil THEN readers \cup {id} ELSE readers
                  /\ lastOp' = Op("NewScanner", n.err, from, -1)
                  /\ UNCHANGED <<scanners, watchers, wch, pts>>
             ELSE /\ rdr' = rdr \o <<sr, sr>>
                  /\ readers' = readers \cup {id, id + 1}
                  /\ wch' = Append(wch, NewCh)
                  /\ watchers' = watchers \cup {Len(wch) + 1}
                  /\ scanners' = IF n.err = NoErr THEN Append(scanners, n.t) ELSE scanners
                  /\ pts' = IF persist /\ n.err = NoErr
                            THEN newPersistentTopicScanner(pts, from) ELSE pts
                  /\ lastOp' = Op("NewScanner", n.err, from, Len(scanners) + 1)

\* Topic.NewScanner(from, persist = false)
NewTopicScanner ==
    /\ Open
    /\ Len(scanners) < MaxScanners
    /\ \E from \in 0..(Latest + 1) : createScanner(from, FALSE)
    /\ UNCHANGED <<disk, hotSeg, nextSegId, notifyCh, now, nWrites, lastW, written, dispVars>>
    /\ UNCHANGED <<mb, appended, strm, fl, wr, mtime>>

\* what one Scan call leaves behind
scanned(i, r) ==
    /\ segs' = r.ss
    /\ scanners' = [scanners EXCEPT ![i] =
                      [r.t EXCEPT !.returned = IF r.err = NoErr THEN @ + 1 ELSE @,
                                  !.lastRet = IF r.err = NoErr THEN r.offset ELSE @,
                                  !.pc = IF r.err = Blocked THEN "wait"
                                         ELSE IF r.err = Panic THEN "panic" ELSE "idle"]]
    /\ lastOp' = OpM("Scan", r.err, i, r.offset, r.m)

\* BLTopicScanner.Scan(ctx) with a context that is done by the time the
\* scanner has nothing to read
Scan ==
    /\ Open
    /\ \E i \in 1..Len(scanners) :
         /\ scanners[i].pc = "idle"
         /\ \E r \in {tsScan(disk, segs, scanners[i], FALSE)} : scanned(i, r)
    /\ UNCHANGED <<disk, hotSeg, nextSegId, notifyCh, watchers, wch, readers, rdr, now,
                   nWrites, lastW, written, dispVars>>
    /\ UNCHANGED <<mb, appended, strm, pts, fl, wr, mtime>>

\* BLTopicScanner.Scan(ctx) with a context that stays live: the call returns
\* or suspends in the select on the watcher channel
ScanWait ==
    /\ Open
    /\ \E i \in 1..Len(scanners) :
         /\ scanners[i].pc = "idle"
         /\ \E r \in {tsScan(disk, segs, scanners[i], TRUE)} : scanned(i, r)
    /\ UNCHANGED <<disk, hotSeg, nextSegId, notifyCh, watchers, wch, readers, rdr, now,
                   nWrites, lastW, written, dispVars>>
    /\ UNCHANGED <<mb, appended, strm, pts, fl, wr, mtime>>

\* the suspended Scan receives from ts.wc.Watch() and scans again
ScanWake ==
    /\ Open
    /\ \E i \in 1..Len(scanners) :
         /\ scanners[i].pc = "wait"
         /\ wch[scanners[i].wc].len > 0
         /\ wch' = [wch EXCEPT ![scanners[i].wc] = [@ EXCEPT !.len = 0]]
         /\ \E r \in {tsScan(disk, segs, scanners[i], TRUE)} : scanned(i, r)
    /\ UNCHANGED <<disk, hotSeg, nextSegId, notifyCh, watchers, readers, rdr, now,
                   nWrites, lastW, written, dispVars>>
    /\ UNCHANGED <<mb, appended, strm, pts, fl, wr, mtime>>

\* the context of a suspended Scan is cancelled or times out: scan returns
\* false from its select on ctx.Done() and Scan ends with ErrEndOfTopic
ScanCancel ==
    /\ Open
    /\ \E i \in 1..Len(scanners) :
         /\ scanners[i].pc = "wait"
         /\ scanners' = [scanners EXCEPT ![i] = [@ EXCEPT !.pc = "idle", !.cancelled = TRUE]]
         /\ lastOp' = OpM("Scan", IF ScannerErr(scanners[i].sc) # NoErr
                                  THEN ScannerErr(scanners[i].sc) ELSE ErrEndOfTopic,
                          i, -1, <<>>)
    /\ UNCHANGED <<disk, segs, hotSeg, nextSegId, notifyCh, watchers, wch, readers, rdr, now,
                   nWrites, lastW, written, dispVars>>
    /\ UNCHANGED <<mb, appended, strm, pts, fl, wr, mtime>>

\* BLTopicScanner.Info(), under ts.mu, which a Scan holds until it returns
Info ==
    /\ Open
    /\ \E i \in 1..Len(scanners) :
         /\ scanners[i].pc = "idle"
         /\ lastOp' = Op("Info", NoErr, i, next(segs, scanners[i]))
    /\ UNCHANGED <<disk, segs, hotSeg, nextSegId, notifyCh, watchers, wch, readers, rdr, now,
                   nWrites, lastW, scanners, written, dispVars>>
    /\ UNCHANGED <<mb, appended, strm, pts, fl, wr, mtime>>

\* ----------------------------------------------------------- Topic.ReadFrom
\* t.Write(m.Bytes()) with no message buffer, on the log state st at time ts
topicWrite(st, b, ts) ==
    LET r == writeN(st.disk, st.segs, st.hot, st.chs, st.id, b, 1, ts)
        th == throughWriter(st.disk, st.segs, st.hot, st.wr, r, b)
    IN  [err |-> r.err,
         st |-> [disk |-> th.disk, segs |-> r.segs, hot |-> r.hot, chs |-> r.chs,
                 id |-> IF r.hot # st.hot THEN st.id + 1 ELSE st.id,
                 wr |-> th.wr,
                 mtime |-> ModTimes(st.mtime, st.disk, th.disk, ts),
                 appended |-> IF r.err = NoErr
                              THEN Append(st.appended,
                                          [off |-> r.off, n |-> 1, b |-> b, seg |-> r.hot])
                              ELSE st.appended,
                 written |-> IF r.err = NoErr THEN Append(st.written, b) ELSE st.written,
                 lastW |-> IF r.err = NoErr THEN [off |-> r.off, n |-> 1] ELSE st.lastW]]

\* Topic.ReadFrom(r): the loop.  n += m.Size() comes before the test for
\* io.EOF, and Size slices the header out of the message ReadMessage gave,
\* which is nil whenever ReadMessage fails on the header.
RECURSIVE readFrom(_, _, _, _)
readFrom(st, stream, n, ts) ==
    Bind(ReadMessage(stream), LAMBDA r :
      IF Len(r.m) < headerSize THEN [st |-> st, n |-> n, err |-> Panic]
      ELSE Bind(n + Size(r.m), LAMBDA n1 :
        IF r.err # NoErr THEN [st |-> st, n |-> n1, err |-> r.err]
        ELSE IF ~ChecksumOK(r.m) THEN readFrom(st, r.rest, n1, ts)
        ELSE Bind(topicWrite(st, r.m, ts), LAMBDA w :
               IF w.err # NoErr THEN [st |-> w.st, n |-> n1, err |-> w.err]
               ELSE readFrom(w.st, r.rest, n1, ts))))

\* a framed message whose stored CRC does not match its payload
BadCRC(m) == [m EXCEPT ![PosCRC32 + 4] = (@ + 1) % 256]

\* Topic.ReadFrom on a stream of k framed messages, those in bad with a
\* wrong CRC
TopicReadFrom ==
    /\ Open
    /\ nWrites < TopicMaxWrites
    /\ nextSegId + 1 < MaxSegments
    /\ \E k \in 0..MaxStreamMsgs :
       \E bad \in SUBSET (1..k) :
         LET msgs == [i \in 1..k |-> IF i \in bad THEN BadCRC(Msg(Len(written) + i - 1))
                                     ELSE Msg(Len(written) + i - 1)]
             st0 == [disk |-> disk, segs |-> segs, hot |-> hotSeg, chs |-> notifyCh,
                     id |-> nextSegId, wr |-> wr, mtime |-> mtime, appended |-> appended,
                     written |-> written, lastW |-> lastW]
         IN  \E r \in {readFrom(st0, Concat(msgs), 0, now)} :
               /\ disk' = r.st.disk
               /\ segs' = r.st.segs
               /\ hotSeg' = r.st.hot
               /\ notifyCh' = r.st.chs
               /\ nextSegId' = r.st.id
               /\ wr' = r.st.wr
               /\ mtime' = r.st.mtime
               /\ appended' = r.st.appended
               /\ written' = r.st.written
               /\ lastW' = r.st.lastW
               /\ lastOp' = OpM("ReadFrom", r.err, k, r.n, msgs)
    /\ nWrites' = nWrites + 1
    /\ UNCHANGED <<watchers, wch, readers, rdr, now, scanners, dispVars>>
    /\ UNCHANGED <<mb, strm, pts, fl>>

\* --------------------------------------------------------- IntegrityChecker
IntegrityChecksumErr == "checksum"

IntegrityLengthErr == "length"

IntegrityUnknownErr == "unknown"

\* a framed message whose header length is not the length of its payload;
\* the CRC still matches the payload
BadLength(m) == [m EXCEPT ![PosPLenth + 4] = (@ + 2) % 256]

\* CheckMessageIntegrity(m, delta): the type of the error, NoErr for none
CheckMessageIntegrity(m) ==
    IF Len(m) < headerSize THEN Panic
    ELSE IF ~ChecksumOK(m) THEN IntegrityChecksumErr
    ELSE IF PLength(m) # Len(Payload(m)) THEN IntegrityLengthErr
    ELSE NoErr

\* IntegrityChecker.Check(ctx), the loop.  ctx is done once cancelAt scans
\* have been made; the break of the select leaves the select only.
RECURSIVE Check(_, _, _, _, _, _)
Check(d, ss, sc, errors, scans, cancelAt) ==
    IF Len(errors) >= errLimit THEN [errors |-> errors, scans |-> scans, err |-> NoErr]
    ELSE Bind(ScannerScan(d, ss, sc), LAMBDA s :
      IF s.sc.err = Panic THEN [errors |-> errors, scans |-> scans + 1, err |-> Panic]
      ELSE IF s.ok
      THEN Bind(CheckMessageIntegrity(s.sc.token), LAMBDA iErr :
             IF iErr = Panic THEN [errors |-> errors, scans |-> scans + 1, err |-> Panic]
             ELSE Check(d, s.ss, s.sc,
                        IF iErr = NoErr THEN errors
                        ELSE Append(errors, [Offset |-> ScannerOffset(s.sc),
                                             ODelta |-> ScannerODelta(s.sc), Type |-> iErr]),
                        scans + 1, cancelAt))
      ELSE IF ScannerErr(s.sc) # NoErr
      THEN Check(d, s.ss, s.sc,
                 Append(errors, [Offset |-> -1, ODelta |-> -1, Type |-> IntegrityUnknownErr]),
                 scans + 1, cancelAt)
      ELSE [errors |-> errors, scans |-> scans + 1, err |-> NoErr])

\* Topic.CheckIntegrity(ctx, from): NewIntegrityChecker, Check, Close
CheckIntegrity ==
    /\ Open
    /\ Len(rdr) < MaxTopicReaders
    /\ \E from \in 0..(Latest + 1), cancelAt \in 0..(IntMaxWrites + 1) :
       \E n \in {NewScanner(disk, segs, from)} :
         IF ~n.ok \/ n.err # NoErr
         THEN /\ segs' = IF ~n.ok /\ n.leaked # Nil THEN setSegment(segs, Nil, n.leaked)
                         ELSE segs
              /\ rdr' = IF ~n.ok /\ n.leaked # Nil
                        THEN Append(rdr, [kind |-> "data", seg |-> n.leaked, pos |-> n.dFO,
                                          open |-> TRUE])
                        ELSE rdr
              /\ readers' = 1..Len(rdr')
              /\ lastOp' = OpM("CheckIntegrity", n.err, from, cancelAt, <<>>)
         ELSE \E c \in {Check(disk, segs, n.sc, <<>>, 0, cancelAt)} :
              /\ lastOp' = OpM("CheckIntegrity", c.err, from, cancelAt,
                               [errors |-> c.errors, scans |-> c.scans])
              /\ UNCHANGED <<segs, rdr, readers>>
    /\ UNCHANGED <<disk, hotSeg, nextSegId, notifyCh, watchers, wch, now, nWrites, lastW,
                   topicVars, dispVars>>
    /\ UNCHANGED <<mb, appended, strm, pts, fl, wr, mtime>>

\* Topic.Write of one message: intact, with a wrong CRC or a wrong length
IntegrityWrite ==
    \E m \in {Msg(nWrites), BadCRC(Msg(nWrites)), BadLength(Msg(nWrites))} :
        DoWriteN(m, 1, IntMaxWrites, RWMaxSegments)

\* -------------------------------------------------------------------- After
\* indexOfSegmentTS: the segment before the first one created after TS
indexOfSegmentTS(ss, TS) ==
    sortSearch(Len(ss), [i \in 0..(Len(ss) - 1) |-> ss[i + 1].createdTS > TS]) - 1

\* segment.indexOfTS: the first entry whose timestamp is TS or later, or zero
indexOfTS(index, TS) ==
    LET n == Cardinality(DOMAIN index)
        i == sortSearch(n, [k \in 0..(n - 1) |->
                               index[k].TS > TS \/ index[k].TS = TS \/ index[k].TS = 0])
    IN  i * iw

\* segment.searchTS: readEntry(s.index[i:]) past the end of the index panics
searchTS(index, TS) ==
    LET i == indexOfTS(index, TS)
    IN  IF ~InIndex(index, i) THEN [err |-> Panic, RO |-> 0]
        ELSE [err |-> NoErr, RO |-> readEntry(index, i).RO]

\* BigLog.locateTS followed by absolute(RO, seg.baseOffset)
locateTS(d, ss, TS) ==
    LET i == indexOfSegmentTS(ss, TS)
    IN  IF i < 0 THEN [err |-> ErrNotFound, ret |-> 0]
        ELSE LET l == searchTS(d[ss[i + 1].baseOffset].index, TS)
             IN  [err |-> l.err,
                  ret |-> IF l.err = NoErr THEN absolute(l.RO, ss[i + 1].baseOffset) ELSE 0]

\* BigLog.After(t), t in whole seconds
After ==
    /\ Open
    /\ \E t \in 0..(MaxNow + 1) :
         \E r \in {locateTS(disk, segs, t)} :
             lastOp' = Op("After", r.err, t, r.ret)
    /\ UNCHANGED <<disk, segs, hotSeg, nextSegId, notifyCh, watchers, wch, readers, rdr, now,
                   nWrites, lastW, topicVars, dispVars>>
    /\ UNCHANGED <<mb, appended, strm, pts, fl, wr, mtime>>

\* ------------------------------------------------------------ CheckSegments
\* time passes
Tick ==
    /\ now < MaxNow
    /\ now' = now + 1
    /\ UNCHANGED <<disk, segs, hotSeg, nextSegId, notifyCh, watchers, wch, readers, rdr,
                   nWrites, lastW, lastOp, topicVars, dispVars>>
    /\ UNCHANGED <<mb, appended, strm, pts, fl, wr, mtime>>

\* BigLog.Info: first offset, data size and modification time per segment
SegInfos(d, ss, m) ==
    [k \in 1..Len(ss) |->
        [FirstOffset |-> ss[k].baseOffset,
         DataSize |-> Len(d[ss[k].baseOffset].data),
         ModTime |-> m[ss[k].baseOffset]]]

\* Topic.checkSegmentsAge: whether Trim is called.  SegAge.From(t) is t
\* moved forward by the duration.
checkSegmentsAge(bi, segAge, t) ==
    IF segAge <= 0 THEN FALSE
    ELSE IF Len(bi) < 2 THEN FALSE
    ELSE IF bi[1].ModTime + segAge > t THEN FALSE
    ELSE TRUE

\* Topic.checkSegmentsSize: whether Split is called
checkSegmentsSize(bi, segSize) ==
    IF segSize <= 0 THEN FALSE
    ELSE IF bi[Len(bi)].DataSize <= segSize THEN FALSE
    ELSE TRUE

\* Topic.CheckSegments on a topic with settings segAge and segSize: the
\* error of the age rule ends the call
CheckSegments ==
    /\ Open
    /\ nextSegId < MaxSegments
    /\ \E segAge \in 0..MaxSegAge, segSize \in 0..MaxSegSize :
       \E bi \in {SegInfos(disk, segs, mtime)} :
       \E a \in {IF checkSegmentsAge(bi, segAge, now) THEN trim(disk, segs)
                  ELSE [err |-> NoErr, disk |-> disk, segs |-> segs]} :
       \E z \in {IF a.err = NoErr /\ checkSegmentsSize(bi, segSize)
                  THEN split(a.disk, a.segs, hotSeg, notifyCh, nextSegId)
                  ELSE [err |-> a.err, disk |-> a.disk, segs |-> a.segs, hot |-> hotSeg,
                        chs |-> notifyCh]} :
       \E sw \in {IF z.hot # hotSeg THEN switchWriter(z.disk, a.segs, hotSeg, wr)
                   ELSE [disk |-> z.disk, wr |-> wr]} :
           /\ disk' = sw.disk
           /\ wr' = sw.wr
           /\ mtime' = ModTimes(mtime, disk, sw.disk, now)
           /\ segs' = z.segs
           /\ hotSeg' = z.hot
           /\ notifyCh' = z.chs
           /\ nextSegId' = IF z.hot # hotSeg THEN nextSegId + 1 ELSE nextSegId
           /\ lastOp' = OpM("CheckSegments", z.err, segAge, segSize, bi)
    /\ UNCHANGED <<watchers, wch, readers, rdr, now, nWrites, lastW>>
    /\ UNCHANGED <<topicVars, dispVars>>
    /\ UNCHANGED <<mb, appended, strm, pts, fl>>

\* --------------------------------------------------- PersistentTopicScanner
\* Topic.NewScanner(from, persist = true)
NewPersistentScanner ==
    /\ Open
    /\ Len(scanners) < MaxScanners
    /\ ~pts.made
    /\ pts.boots = 0
    /\ \E from \in 0..(Latest + 1) : createScanner(from, TRUE)
    /\ UNCHANGED <<disk, hotSeg, nextSegId, notifyCh, now, nWrites, lastW, written, dispVars>>
    /\ UNCHANGED <<mb, appended, strm, fl, wr, mtime>>

\* PersistentTopicScanner.Scan, caller c: m, offset, err = p.ts.Scan(ctx),
\* which runs under the mutex of the scanner; a negative offset returns
PScanInner(c) ==
    /\ Open
    /\ pts.made
    /\ ~pts.closed
    /\ Len(scanners) >= 1
    /\ scanners[1].pc = "idle"
    /\ pts.calls[c].pc = "idle"
    /\ \E r \in {tsScan(disk, segs, scanners[1], FALSE)} :
         /\ scanned(1, r)
         /\ pts' = IF r.offset < 0 THEN pts
                   ELSE [pts EXCEPT !.calls[c] = [pc |-> "send", off |-> r.offset]]
    /\ UNCHANGED <<disk, hotSeg, nextSegId, notifyCh, watchers, wch, readers, rdr, now,
                   nWrites, lastW, written, dispVars>>
    /\ UNCHANGED <<mb, appended, strm, fl, wr, mtime>>

\* PersistentTopicScanner.Scan, caller c: select { case p.oc <- offset: default: }
PScanSend(c) ==
    /\ pts.made
    /\ ~pts.closed
    /\ pts.calls[c].pc = "send"
    /\ pts' = [pts EXCEPT !.oc = IF Len(@) < OcCap THEN Append(@, pts.calls[c].off) ELSE @,
                          !.calls[c].pc = "ret"]
    /\ UNCHANGED <<disk, segs, hotSeg, nextSegId, notifyCh, watchers, wch, readers, rdr, now,
                   nWrites, lastW, lastOp, topicVars, dispVars>>
    /\ UNCHANGED <<mb, appended, strm, fl, wr, mtime>>

\* PersistentTopicScanner.Scan, caller c: return m, offset, err
PScanReturn(c) ==
    /\ pts.made
    /\ pts.calls[c].pc = "ret"
    /\ pts' = [pts EXCEPT !.returned = @ \cup {pts.calls[c].off},
                          !.calls[c] = [pc |-> "idle", off |-> -1]]
    /\ lastOp' = Op("PScan", NoErr, c, pts.calls[c].off)
    /\ UNCHANGED <<disk, segs, hotSeg, nextSegId, notifyCh, watchers, wch, readers, rdr, now,
                   nWrites, lastW, topicVars, dispVars>>
    /\ UNCHANGED <<mb, appended, strm, fl, wr, mtime>>

PScan == \E c \in 1..MaxCallers : PScanInner(c) \/ PScanSend(c) \/ PScanReturn(c)

\* PersistentTopicScanner.persist: one turn of the loop over the channel,
\* p.f.WriteAt(buf, 0)
persist ==
    /\ pts.made
    /\ pts.oc # <<>>
    /\ pts' = [pts EXCEPT !.file = Head(pts.oc), !.oc = Tail(pts.oc)]
    /\ UNCHANGED <<disk, segs, hotSeg, nextSegId, notifyCh, watchers, wch, readers, rdr, now,
                   nWrites, lastW, lastOp, topicVars, dispVars>>
    /\ UNCHANGED <<mb, appended, strm, fl, wr, mtime>>

\* PersistentTopicScanner.Scan, caller c, with a context that stays live:
\* p.ts.Scan(ctx) returns or suspends in the select on the watcher channel
PScanInnerLive(c) ==
    /\ Open
    /\ pts.made
    /\ ~pts.closed
    /\ Len(scanners) >= 1
    /\ scanners[1].pc = "idle"
    /\ pts.calls[c].pc = "idle"
    /\ \E r \in {tsScan(disk, segs, scanners[1], TRUE)} :
         /\ scanned(1, r)
         /\ pts' = IF r.offset >= 0 THEN [pts EXCEPT !.calls[c] = [pc |-> "send", off |-> r.offset]]
                   ELSE IF r.err = Blocked THEN [pts EXCEPT !.calls[c].pc = "inner"]
                   ELSE pts
    /\ UNCHANGED <<disk, hotSeg, nextSegId, notifyCh, watchers, wch, readers, rdr, now,
                   nWrites, lastW, written, dispVars>>
    /\ UNCHANGED <<mb, appended, strm, fl, wr, mtime>>

\* the suspended p.ts.Scan of caller c receives from ts.wc.Watch(), a
\* notification or the zero value of the closed channel, and scans again
PScanWake(c) ==
    /\ Open
    /\ pts.made
    /\ Len(scanners) >= 1
    /\ scanners[1].pc = "wait"
    /\ pts.calls[c].pc = "inner"
    /\ wch[scanners[1].wc].len > 0 \/ wch[scanners[1].wc].closed
    /\ wch' = [wch EXCEPT ![scanners[1].wc] = [@ EXCEPT !.len = 0]]
    /\ \E r \in {tsScan(disk, segs, scanners[1], TRUE)} :
         /\ scanned(1, r)
         /\ pts' = IF r.offset >= 0 THEN [pts EXCEPT !.calls[c] = [pc |-> "send", off |-> r.offset]]
                   ELSE IF r.err = Blocked THEN pts
                   ELSE [pts EXCEPT !.calls[c].pc = "idle"]
    /\ UNCHANGED <<disk, hotSeg, nextSegId, notifyCh, watchers, readers, rdr, now,
                   nWrites, lastW, written, dispVars>>
    /\ UNCHANGED <<mb, appended, strm, fl, wr, mtime>>

\* PersistentTopicScanner.Scan, caller c: select { case p.oc <- offset: default: }
\* on the closed channel: the send is chosen and panics
PScanSendClosed(c) ==
    /\ pts.made
    /\ pts.closed
    /\ pts.calls[c].pc = "send"
    /\ pts' = [pts EXCEPT !.calls[c].pc = "panic"]
    /\ lastOp' = Op("PScan", Panic, c, pts.calls[c].off)
    /\ UNCHANGED <<disk, segs, hotSeg, nextSegId, notifyCh, watchers, wch, readers, rdr, now,
                   nWrites, lastW, topicVars, dispVars>>
    /\ UNCHANGED <<mb, appended, strm, fl, wr, mtime>>

PScanLive ==
    \E c \in 1..MaxCallers :
        \/ PScanInnerLive(c) \/ PScanWake(c)
        \/ PScanSend(c) \/ PScanSendClosed(c) \/ PScanReturn(c)

\* Topic.DeleteScanner(ID) on the persistent scanner: os.Remove(p.fpath),
\* close(p.oc), which ends persist once it has written what the channel
\* held to the removed file, then BLTopicScanner.Close, which takes no lock:
\* the two readers of the Scanner closed, the watcher removed and its channel
\* closed
PClose ==
    /\ Open
    /\ pts.made
    /\ ~pts.closed
    /\ Len(scanners) >= 1
    /\ pts' = [pts EXCEPT !.closed = TRUE, !.file = -1, !.oc = <<>>]
    /\ segs' = setSegment(setSegment(segs, scanners[1].sc.rseg, Nil), scanners[1].sc.iseg, Nil)
    /\ rdr' = [i \in 1..Len(rdr) |-> IF rdr[i].kind = "scanner" THEN [rdr[i] EXCEPT !.open = FALSE]
                                     ELSE rdr[i]]
    /\ readers' = {i \in readers : rdr[i].kind # "scanner"}
    /\ watchers' = watchers \ {scanners[1].wc}
    /\ wch' = [wch EXCEPT ![scanners[1].wc] = [@ EXCEPT !.closed = TRUE]]
    /\ lastOp' = Op("DeleteScanner", NoErr, 1, 0)
    /\ UNCHANGED <<disk, hotSeg, nextSegId, notifyCh, now, nWrites, lastW, topicVars, dispVars>>
    /\ UNCHANGED <<mb, appended, strm, fl, wr, mtime>>

\* offsetFromFile: -1 unless the file holds eight bytes
offsetFromFile(p) == p.file

\* the server process stops and is started again: NewTopic opens the log
\* and restorePersistedReaders makes the scanner of every *.scanner file
\* at last + 1, or at the oldest offset if last lies before it
Restart ==
    /\ Open
    /\ pts.made
    /\ pts.boots < MaxBoots
    /\ \E r \in {open(disk)} :
       \E last \in {offsetFromFile(pts)} :
       \E from \in {IF last < r.segs[1].baseOffset THEN r.segs[1].baseOffset ELSE last + 1} :
       \E n \in {newBLTopicScanner(r.disk, r.segs, from, 1)} :
         LET sr == [kind |-> "scanner", seg |-> Nil, pos |-> 0, open |-> TRUE]
             up == n.ok /\ n.err = NoErr
         IN  /\ disk' = r.disk
             /\ hotSeg' = r.hot
             /\ nextSegId' = Len(r.segs)
             /\ notifyCh' = [id \in 0..(Len(r.segs) - 1) |-> NewCh]
             /\ wr' = [PlainWriter EXCEPT !.orphan = IF r.rebuilt THEN {r.hot} ELSE {}]
             /\ mtime' = IF r.rebuilt
                         THEN [mtime EXCEPT ![r.segs[Len(r.segs)].baseOffset] = now]
                         ELSE mtime
             /\ segs' = n.ss
             /\ rdr' = IF n.ok THEN <<sr, sr>>
                       ELSE IF n.leaked # Nil
                       THEN <<[kind |-> "data", seg |-> n.leaked, pos |-> n.dFO, open |-> TRUE]>>
                       ELSE <<>>
             /\ readers' = 1..Len(rdr')
             /\ wch' = IF n.ok THEN <<NewCh>> ELSE <<>>
             /\ watchers' = 1..Len(wch')
             /\ scanners' = IF up THEN <<n.t>> ELSE <<>>
             /\ pts' = [(IF up THEN newPersistentTopicScanner(pts, from)
                          ELSE [pts EXCEPT !.made = FALSE, !.oc = <<>>])
                        EXCEPT !.boots = @ + 1]
             /\ lastOp' = Op("Restore", IF n.ok THEN n.err ELSE n.err, from, last)
    /\ dpc' = "load"
    /\ dseg' = Nil
    /\ strm' = NoStreamer
    /\ fl' = NoCall
    /\ UNCHANGED <<now, nWrites, lastW, written, mb, appended>>

\* Topic.Payload(offset); the reader it opens is never closed
PayloadCall ==
    /\ Open
    /\ Len(rdr) < MaxTopicReaders
    /\ \E o \in 0..Latest :
         \E p \in {TopicPayload(disk, segs, o)} :
             /\ segs' = IF p.seg # Nil THEN setSegment(segs, Nil, p.seg) ELSE segs
             /\ rdr' = IF p.seg # Nil
                       THEN Append(rdr, [kind |-> "data", seg |-> p.seg, pos |-> p.dFO,
                                         open |-> TRUE])
                       ELSE rdr
             /\ readers' = IF p.seg # Nil THEN readers \cup {Len(rdr) + 1} ELSE readers
             /\ lastOp' = OpM("Payload", p.err, o, 0, p.payload)
    /\ UNCHANGED <<disk, hotSeg, nextSegId, notifyCh, watchers, wch, now, nWrites, lastW,
                   scanners, written, dispVars>>
    /\ UNCHANGED <<mb, appended, strm, pts, fl, wr, mtime>>

\* -------------------------------------------------------- BigLog.notify
\* hotSeg = bl.hotSeg.Load()
NotifyLoad ==
    /\ dpc = "load"
    /\ Open
    /\ dseg' = hotSeg
    /\ dpc' = "recv"
    /\ lastOp' = Op("notify.load", NoErr, hotSeg, 0)
    /\ UNCHANGED <<disk, segs, hotSeg, nextSegId, notifyCh, watchers, wch, readers, rdr, now,
                   nWrites, lastW, topicVars>>
    /\ UNCHANGED <<mb, appended, strm, pts, fl, wr, mtime>>

\* _, ok := <-hotSeg.notify: a buffered value is received, also from a closed
\* channel; an empty closed channel yields !ok; an empty open one blocks
NotifyRecv ==
    /\ dpc = "recv"
    /\ notifyCh[dseg].len > 0 \/ notifyCh[dseg].closed
    /\ IF notifyCh[dseg].len > 0
       THEN /\ notifyCh' = [notifyCh EXCEPT ![dseg] = [@ EXCEPT !.len = 0]]
            /\ dpc' = "send"
            /\ lastOp' = Op("notify.recv", NoErr, dseg, 1)
       ELSE /\ notifyCh' = notifyCh
            /\ dpc' = "load"
            /\ lastOp' = Op("notify.recv", NoErr, dseg, 0)
    /\ UNCHANGED <<disk, segs, hotSeg, nextSegId, watchers, wch, readers, rdr, now,
                   nWrites, lastW, topicVars, dseg>>
    /\ UNCHANGED <<mb, appended, strm, pts, fl, wr, mtime>>

\* under wmu: the non-blocking send to every registered watcher
NotifySend ==
    /\ dpc = "send"
    /\ wch' = [w \in DOMAIN wch |-> IF w \in watchers THEN [wch[w] EXCEPT !.len = 1] ELSE wch[w]]
    /\ dpc' = "load"
    /\ lastOp' = Op("notify.send", NoErr, dseg, 0)
    /\ UNCHANGED <<disk, segs, hotSeg, nextSegId, notifyCh, watchers, readers, rdr, now,
                   nWrites, lastW, topicVars, dseg>>
    /\ UNCHANGED <<mb, appended, strm, pts, fl, wr, mtime>>

\* a client receives from Watcher.Watch()
WatchRecv ==
    /\ \E w \in watchers :
         /\ \A i \in 1..Len(scanners) : scanners[i].wc # w
         /\ wch[w].len > 0
         /\ wch' = [wch EXCEPT ![w] = [@ EXCEPT !.len = 0]]
         /\ lastOp' = Op("Watch", NoErr, w, 0)
    /\ UNCHANGED <<disk, segs, hotSeg, nextSegId, notifyCh, watchers, readers, rdr, now,
                   nWrites, lastW, topicVars, dispVars>>
    /\ UNCHANGED <<mb, appended, strm, pts, fl, wr, mtime>>

\* -------------------------------------------------------- messageBuffer
\* message.Pack(msgs, comp): the message-set of msgs
Pack(msgs, comp) == MessageSet(msgs, comp)

\* flush that leaves the last buffered message out of the message-set
flush_losesLast(buff, comp) ==
    IF Len(buff) = 0 THEN [calls |-> <<>>, buff |-> buff]
    ELSE [calls |-> <<[p |-> IF Len(buff) = 1 THEN buff[1]
                             ELSE Pack(SubSeq(buff, 1, Len(buff) - 1), comp),
                       n |-> Len(buff)]>>,
          buff |-> <<>>]

\* flush that packs a single buffered message into a message-set too
flush_alwaysPacks(buff, comp) ==
    IF Len(buff) = 0 THEN [calls |-> <<>>, buff |-> buff]
    ELSE [calls |-> <<[p |-> Pack(buff, comp), n |-> Len(buff)]>>, buff |-> <<>>]

\* messageBuffer.flush on the buffered messages: the WriteN calls it makes on
\* the writer (none or one, each [p, n]) and the messages left buffered
flush(buff, comp) ==
    IF Len(buff) = 0 THEN [calls |-> <<>>, buff |-> buff]
    ELSE [calls |-> <<[p |-> IF Len(buff) = 1 THEN buff[1] ELSE Pack(buff, comp),
                       n |-> Len(buff)]>>,
          buff |-> <<>>]

\* newMessageBuffer(w, settings): launchFlusher returns at once when the
\* interval is 0 and runs the ticker loop otherwise
MBNew ==
    /\ ~mb.made
    /\ \E N \in 1..MaxBatch, d \in BOOLEAN, c \in CompressionNone..CompressionSnappy :
         mb' = [NoBuffer EXCEPT !.made = TRUE, !.messages = N, !.ticker = d, !.comp = c,
                                !.fpc = IF d THEN "select" ELSE "done"]
    /\ lastOp' = Op("mb.New", NoErr, 0, 0)
    /\ UNCHANGED <<disk, segs, hotSeg, nextSegId, notifyCh, watchers, wch, readers, rdr, now,
                   nWrites, lastW, topicVars, dispVars, appended, strm, pts, fl, wr, mtime>>

\* messageBuffer.Write(p), under m.mu
MBWrite ==
    /\ mb.made /\ mb.cpc = "idle"
    /\ Len(mb.wrote) < MaxBufWrites
    /\ \E p \in {Msg(Len(mb.wrote))} :
       \E b \in {Append(mb.buff, p)} :
       \E f \in {IF Len(b) = mb.messages THEN flush(b, mb.comp)
                 ELSE [calls |-> <<>>, buff |-> b]} :
         /\ mb' = [mb EXCEPT !.wrote = Append(@, p), !.buff = f.buff,
                             !.writes = @ \o f.calls]
         /\ lastOp' = Op("mb.Write", NoErr, Len(p), Len(f.calls))
    /\ UNCHANGED <<disk, segs, hotSeg, nextSegId, notifyCh, watchers, wch, readers, rdr, now,
                   nWrites, lastW, topicVars, dispVars, appended, strm, pts, fl, wr, mtime>>

\* the flusher's select receives from ticker.C
MBTick ==
    /\ mb.fpc = "select"
    /\ mb' = [mb EXCEPT !.fpc = "flush"]
    /\ lastOp' = Op("mb.tick", NoErr, 0, 0)
    /\ UNCHANGED <<disk, segs, hotSeg, nextSegId, notifyCh, watchers, wch, readers, rdr, now,
                   nWrites, lastW, topicVars, dispVars, appended, strm, pts, fl, wr, mtime>>

\* a flusher that takes the tick and goes back to its select without flushing
MBTickFlush_skips ==
    /\ mb.fpc = "flush" /\ mb.cpc # "send"
    /\ mb' = [mb EXCEPT !.fpc = "select"]
    /\ lastOp' = Op("mb.Flush", NoErr, Len(mb.buff), 0)
    /\ UNCHANGED <<disk, segs, hotSeg, nextSegId, notifyCh, watchers, wch, readers, rdr, now,
                   nWrites, lastW, topicVars, dispVars, appended, strm, pts, fl, wr, mtime>>

\* the flusher's m.Flush(): m.mu, held by Close while it sends, must be free
MBTickFlush ==
    /\ mb.fpc = "flush" /\ mb.cpc # "send"
    /\ \E f \in {flush(mb.buff, mb.comp)} :
         /\ mb' = [mb EXCEPT !.buff = f.buff, !.writes = @ \o f.calls, !.fpc = "select"]
         /\ lastOp' = Op("mb.Flush", NoErr, Len(mb.buff), Len(f.calls))
    /\ UNCHANGED <<disk, segs, hotSeg, nextSegId, notifyCh, watchers, wch, readers, rdr, now,
                   nWrites, lastW, topicVars, dispVars, appended, strm, pts, fl, wr, mtime>>

\* messageBuffer.Close: lock m.mu and send on the unbuffered stopChan
MBClose ==
    /\ mb.made /\ mb.cpc = "idle"
    /\ mb' = [mb EXCEPT !.cpc = "send"]
    /\ lastOp' = Op("mb.Close", Blocked, 0, 0)
    /\ UNCHANGED <<disk, segs, hotSeg, nextSegId, notifyCh, watchers, wch, readers, rdr, now,
                   nWrites, lastW, topicVars, dispVars, appended, strm, pts, fl, wr, mtime>>

\* the flusher's select receives from stopChan and returns; Close returns
MBStop ==
    /\ mb.cpc = "send" /\ mb.fpc = "select"
    /\ mb' = [mb EXCEPT !.cpc = "returned", !.fpc = "done"]
    /\ lastOp' = Op("mb.Close", NoErr, 0, 0)
    /\ UNCHANGED <<disk, segs, hotSeg, nextSegId, notifyCh, watchers, wch, readers, rdr, now,
                   nWrites, lastW, topicVars, dispVars, appended, strm, pts, fl, wr, mtime>>

\* ------------------------------------------- the topic's messageBuffer
\* the process has not aborted in the messageBuffer
MBAlive == mb.fpc # "panic" /\ mb.cpc # "panic"

\* newTopic(bl, settings, defaultSettings): N and d are BatchNumMessages and
\* BatchInterval > 0 once the zero values have been replaced by the
\* defaults, which may be zero themselves.  The messageBuffer is installed
\* for N > 1 or d; without it the topic writes to the log (fpc = "done")
newTopic ==
    /\ Open
    /\ ~mb.made /\ mb.fpc = "none"
    /\ \E N \in 0..MaxBatch, d \in BOOLEAN, c \in CompressionNone..CompressionSnappy :
         mb' = IF N > 1 \/ d
               THEN [NoBuffer EXCEPT !.made = TRUE, !.messages = N, !.ticker = d, !.comp = c,
                                     !.fpc = IF d THEN "select" ELSE "done"]
               ELSE [NoBuffer EXCEPT !.fpc = "done"]
    /\ lastOp' = Op("newTopic", NoErr, 0, 0)
    /\ UNCHANGED <<disk, segs, hotSeg, nextSegId, notifyCh, watchers, wch, readers, rdr, now,
                   nWrites, lastW, topicVars, dispVars, appended, strm, pts, fl, wr, mtime>>

\* bl.WriteN(b, n) as the topic's writer calls it, msgs being the messages
\* in b: the log's part of the step
blWriteN(b, n, msgs) ==
    /\ Open
    /\ IsFull(HotSegOf(segs, hotSeg)) => nextSegId < RWMaxSegments
    /\ \E r \in {writeN(disk, segs, hotSeg, notifyCh, nextSegId, b, n, now)} :
       \E th \in {throughWriter(disk, segs, hotSeg, wr, r, b)} :
           /\ disk' = th.disk
           /\ wr' = th.wr
           /\ mtime' = ModTimes(mtime, disk, th.disk, now)
           /\ segs' = r.segs
           /\ hotSeg' = r.hot
           /\ notifyCh' = r.chs
           /\ nextSegId' = IF r.hot # hotSeg THEN nextSegId + 1 ELSE nextSegId
           /\ lastW' = IF r.err = NoErr THEN [off |-> r.off, n |-> n] ELSE lastW
           /\ appended' = IF r.err = NoErr
                          THEN Append(appended, [off |-> r.off, n |-> n, b |-> b, seg |-> r.hot])
                          ELSE appended
           /\ written' = IF r.err = NoErr THEN written \o msgs ELSE written
           /\ lastOp' = Op("WriteN", r.err, n, r.off)
    /\ nWrites' = nWrites + 1
    /\ UNCHANGED <<watchers, wch, readers, rdr, now, scanners, dispVars>>
    /\ UNCHANGED <<strm, pts, fl>>

\* the step leaves the log as it is
blUnchanged ==
    UNCHANGED <<disk, segs, hotSeg, nextSegId, notifyCh, watchers, wch, readers, rdr, now,
                nWrites, lastW, topicVars, dispVars, appended, strm, pts, fl, wr, mtime>>

\* m.writer.WriteN(data.Bytes(), m.buffered) of messageBuffer.flush: on the
\* deleted log hotSeg holds a nil *segment and splitIfFull dereferences it
mbWriteN(buff, comp, who) ==
    \E f \in {flush(buff, comp)} :
      IF Open
      THEN /\ blWriteN(f.calls[1].p, f.calls[1].n, buff)
           /\ mb' = [mb EXCEPT !.buff = f.buff, !.writes = @ \o f.calls,
                               !.wrote = IF who = "Write" THEN Append(@, buff[Len(buff)]) ELSE @,
                               !.fpc = IF who = "Flush" THEN "select" ELSE @]
      ELSE /\ mb' = [mb EXCEPT !.buff = f.buff, !.writes = @ \o f.calls,
                               !.fpc = IF who = "Flush" THEN "panic" ELSE @,
                               !.cpc = IF who = "Write" THEN "panic" ELSE @]
           /\ lastOp' = Op("WriteN", Panic, f.calls[1].n, 0)
           /\ blUnchanged

\* Topic.Write(p) of a topic NetLog.Topic still finds: t.writer.Write(p), the
\* messageBuffer's Write under m.mu (m.buff has m.messages places) or the
\* log's
TopicBufWrite ==
    /\ Open /\ MBAlive
    /\ Len(mb.wrote) < MaxBufWrites
    /\ \E p \in {Msg(Len(mb.wrote))} :
         IF ~mb.made
         THEN /\ mb.fpc = "done"
              /\ blWriteN(p, 1, <<p>>)
              /\ mb' = [mb EXCEPT !.wrote = Append(@, p)]
         ELSE IF Len(mb.buff) >= mb.messages
         THEN /\ mb' = [mb EXCEPT !.cpc = "panic"]
              /\ lastOp' = Op("mb.Write", Panic, Len(p), 0)
              /\ blUnchanged
         ELSE IF Len(mb.buff) + 1 = mb.messages
         THEN mbWriteN(Append(mb.buff, p), mb.comp, "Write")
         ELSE /\ mb' = [mb EXCEPT !.wrote = Append(@, p), !.buff = Append(@, p)]
              /\ lastOp' = Op("mb.Write", NoErr, Len(p), 0)
              /\ blUnchanged

\* the flusher's select receives from ticker.C
TopicBufTick == MBAlive /\ MBTick

\* the flusher's m.Flush() on the topic's log
TopicBufFlush ==
    /\ MBAlive
    /\ mb.fpc = "flush"
    /\ IF mb.buff = <<>>
       THEN /\ mb' = [mb EXCEPT !.fpc = "select"]
            /\ lastOp' = Op("mb.Flush", NoErr, 0, 0)
            /\ blUnchanged
       ELSE mbWriteN(mb.buff, mb.comp, "Flush")

\* NetLog.DeleteTopic(name, force): the topic found and unregistered, then
\* t.bl.Delete(force); the topic's writer is left as it is
DeleteTopic ==
    /\ MBAlive
    /\ mb.fpc # "none"
    /\ Delete

\* ---------------------------------------------------------------- Streamer
ZeroSection == [nil |-> FALSE, Offset |-> 0, ODelta |-> 0, EDelta |-> 0, Size |-> 0]

\* IndexReader.ReadSection(maxOffsets, maxBytes): the loop, entry by entry.
\* Returns the section, the error and the reader's new segment and iFO.
RECURSIVE readSectionLoop(_, _, _, _, _, _, _, _)
readSectionLoop(d, ss, segId, iFO, maxOffsets, maxBytes, is, firstIter) ==
    Bind(jumpSeg(ss, segId, iFO), LAMBDA j :
      IF j.err # NoErr
      THEN [is |-> is, err |-> j.err, seg |-> segId, iFO |-> iFO]
      ELSE Bind(entryAt(d[ss[SegIdx(ss, j.seg)].baseOffset].index,
                        ss[SegIdx(ss, j.seg)].baseOffset, j.iFO), LAMBDA e :
        IF is.ODelta + e.ODelta > maxOffsets
        THEN IF firstIter
             THEN [is |-> NoSection, err |-> ErrNeedMoreOffsets, seg |-> j.seg, iFO |-> j.iFO]
             ELSE [is |-> is, err |-> NoErr, seg |-> j.seg, iFO |-> j.iFO]
        ELSE IF is.Size + e.Size > maxBytes
        THEN IF firstIter
             THEN [is |-> NoSection, err |-> ErrNeedMoreBytes, seg |-> j.seg, iFO |-> j.iFO]
             ELSE [is |-> is, err |-> NoErr, seg |-> j.seg, iFO |-> j.iFO]
        ELSE Bind([nil |-> FALSE,
                   Offset |-> IF firstIter THEN e.Offset ELSE is.Offset,
                   ODelta |-> is.ODelta + e.ODelta,
                   EDelta |-> is.EDelta + 1,
                   Size |-> is.Size + e.Size], LAMBDA is1 :
               readSectionLoop(d, ss, j.seg, j.iFO + iw, maxOffsets, maxBytes, is1, FALSE))))

ReadSection(d, ss, segId, iFO, maxOffsets, maxBytes) ==
    readSectionLoop(d, ss, segId, iFO, maxOffsets, maxBytes, ZeroSection, TRUE)

\* the records bl.readers holds for the streamer's Reader and IndexReader
StreamerReader == [kind |-> "streamer", seg |-> Nil, pos |-> 0, open |-> TRUE]

\* NewStreamer(bl, from): NewReader(bl, from), then NewIndexReader(bl, off)
NewStreamer ==
    /\ Open
    /\ ~strm.made
    /\ \E from \in Oldest..(Latest + 1) :
       \E r \in {NewReaderAt(disk, segs, from)} :
         IF r.err \notin {NoErr, ErrEmbeddedOffset}
         THEN /\ lastOp' = Op("NewStreamer", r.err, from, -1)
              /\ UNCHANGED <<segs, rdr, readers, strm>>
         ELSE \E segs1 \in {setSegment(segs, Nil, r.seg)} :
              \E ir \in {NewReaderAt(disk, segs1, r.ret)} :
                /\ segs' = IF ir.err \in {NoErr, ErrEmbeddedOffset}
                           THEN setSegment(segs1, Nil, ir.seg) ELSE segs1
                /\ rdr' = IF ir.err \in {NoErr, ErrEmbeddedOffset}
                          THEN rdr \o <<StreamerReader, StreamerReader>>
                          ELSE Append(rdr, StreamerReader)
                /\ readers' = IF ir.err \in {NoErr, ErrEmbeddedOffset}
                              THEN readers \cup {Len(rdr) + 1, Len(rdr) + 2}
                              ELSE readers \cup {Len(rdr) + 1}
                /\ strm' = IF ir.err = NoErr
                           THEN [NoStreamer EXCEPT !.made = TRUE, !.rseg = r.seg, !.rpos = r.dFO,
                                                   !.iseg = ir.seg, !.iFO = ir.iFO,
                                                   !.start = r.ret, !.next = r.ret]
                           ELSE strm
                /\ lastOp' = Op("NewStreamer", IF ir.err = NoErr THEN r.err ELSE ir.err,
                                from, r.ret)
    /\ UNCHANGED <<disk, hotSeg, nextSegId, notifyCh, watchers, wch, now, nWrites, lastW>>
    /\ UNCHANGED <<topicVars, dispVars>>
    /\ UNCHANGED <<mb, appended, pts, fl, wr, mtime>>

\* Streamer.Get(maxOffsets, maxBytes): st.mu is taken, and kept while the
\* delta is out; on an error of ReadSection it is released and no delta returned
StreamGet ==
    /\ Open
    /\ strm.made /\ ~strm.locked
    /\ strm.gets < StreamMaxGets
    /\ \E maxOffsets \in 1..StreamMaxOffsets, maxBytes \in 1..StreamMaxBytes :
       \E s \in {ReadSection(disk, segs, strm.iseg, strm.iFO, maxOffsets, maxBytes)} :
         /\ segs' = setSegment(segs, strm.iseg, s.seg)
         /\ strm' = [strm EXCEPT !.iseg = s.seg, !.iFO = s.iFO, !.sec = s.is,
                                 !.locked = (s.err = NoErr),
                                 !.delta = IF s.err = NoErr THEN s.is ELSE NoSection,
                                 !.N = IF s.err = NoErr THEN s.is.Size ELSE 0,
                                 !.sent = <<>>,
                                 !.next = IF s.err = NoErr THEN s.is.Offset + s.is.ODelta ELSE @,
                                 !.maxOffsets = maxOffsets, !.maxBytes = maxBytes,
                                 !.gets = @ + 1]
         /\ lastOp' = Op("Get", s.err, maxOffsets, IF s.err = NoErr THEN s.is.Offset ELSE -1)
    /\ UNCHANGED <<disk, hotSeg, nextSegId, notifyCh, watchers, wch, readers, rdr, now,
                   nWrites, lastW>>
    /\ UNCHANGED <<topicVars, dispVars>>
    /\ UNCHANGED <<mb, appended, pts, fl, wr, mtime>>

\* StreamDelta.Read(p) with len(p) = ReadBuf: io.LimitReader over the
\* streamer's Reader
StreamRead ==
    /\ Open
    /\ strm.made /\ strm.locked
    /\ \E r \in {IF strm.N <= 0
                 THEN [bytes |-> <<>>, err |-> EOF, seg |-> strm.rseg, dFO |-> strm.rpos]
                 ELSE ReaderRead(disk, segs, strm.rseg, strm.rpos, Min(ReadBuf, strm.N))} :
         /\ segs' = setSegment(segs, strm.rseg, r.seg)
         /\ strm' = [strm EXCEPT !.rseg = r.seg, !.rpos = r.dFO, !.N = @ - Len(r.bytes),
                                 !.sent = @ \o r.bytes]
         /\ lastOp' = Op("delta.Read", r.err, ReadBuf, Len(r.bytes))
    /\ UNCHANGED <<disk, hotSeg, nextSegId, notifyCh, watchers, wch, readers, rdr, now,
                   nWrites, lastW>>
    /\ UNCHANGED <<topicVars, dispVars>>
    /\ UNCHANGED <<mb, appended, pts, fl, wr, mtime>>

\* Streamer.Put(delta), called once the delta has been read to its EOF
StreamPut ==
    /\ Open
    /\ strm.made /\ strm.locked
    /\ lastOp.op = "delta.Read" /\ lastOp.err = EOF
    /\ strm' = [strm EXCEPT !.locked = FALSE]
    /\ lastOp' = Op("Put", NoErr, strm.delta.Offset, Len(strm.sent))
    /\ UNCHANGED <<disk, segs, hotSeg, nextSegId, notifyCh, watchers, wch, readers, rdr, now,
                   nWrites, lastW>>
    /\ UNCHANGED <<topicVars, dispVars>>
    /\ UNCHANGED <<mb, appended, pts, fl, wr, mtime>>

\* the log on its own: writes, splits, trims
Next == WriteN \/ Split \/ Trim

Spec == Init /\ [][Next]_vars

\* the log with its readers: trimming under readers
NextTrim ==
    \/ RWWriteN \/ RWSplit \/ Trim
    \/ NewReader \/ ReadToEOF \/ CloseReader

SpecTrim == Init /\ [][NextTrim]_vars

\* the topic: single messages, raw sequences and message-sets, scanners, Payload
NextTopic ==
    \/ TopicWrite \/ TopicWriteN \/ RWSplit
    \/ NewTopicScanner \/ Scan \/ PayloadCall

SpecTopic == Init /\ [][NextTopic]_vars

\* a topic of single messages and message-sets, trimmed while scanners report
\* their position
NextInfo ==
    \/ TopicWrite \/ TopicWriteN \/ RWSplit \/ Trim
    \/ NewTopicScanner \/ Scan \/ Info

SpecInfo == Init /\ [][NextInfo]_vars

\* a topic with one persistent scanner, scanned by several callers while the
\* server process stops and starts again
NextPersist ==
    \/ TopicWrite \/ TopicWriteSet \/ RWSplit \/ Trim
    \/ NewPersistentScanner \/ PScan \/ persist \/ Restart

SpecPersist == Init /\ [][NextPersist]_vars

\* a topic under the segment monitor, with readers that keep segments busy
NextMonitor ==
    \/ WriteN \/ NewReader \/ CloseReader
    \/ Tick \/ CheckSegments

SpecMonitor == Init /\ [][NextMonitor]_vars

\* writes and splits while time passes, the log closed and opened again,
\* and searches by time
NextAfter ==
    \/ RWWriteN \/ RWSplit \/ Tick
    \/ Close \/ Reopen \/ After

SpecAfter == Init /\ [][NextAfter]_vars

\* a topic fed with streams of framed messages and with single writes
NextIngest ==
    \/ TopicReadFrom \/ TopicWrite \/ RWSplit \/ Tick

SpecIngest == Init /\ [][NextIngest]_vars

\* a topic of intact and corrupted messages under integrity checks
NextIntegrity ==
    \/ IntegrityWrite \/ RWSplit \/ CheckIntegrity

SpecIntegrity == Init /\ [][NextIntegrity]_vars

\* readers created step by step while the log is written, split and trimmed
NextAttach ==
    \/ RWWriteN \/ RWSplit \/ Trim
    \/ NewReaderLocate \/ NewReaderAttach
    \/ Read \/ ReadRemoved \/ CloseReader

SpecAttach == Init /\ [][NextAttach]_vars

\* a reader that reads step by step while the log is written and split
NextRotate ==
    \/ LkWrite \/ RWSplit
    \/ NewReader \/ ReadStart \/ ReadNext

SpecRotate == Init /\ [][NextRotate]_vars

\* an index reader that reads while a write is inside updateIndex
NextTorn ==
    \/ WriteNAdvance \/ WriteNPutRO \/ WriteNPutDFO
    \/ NewIndexReader \/ IndexReadEntries

SpecTorn == Init /\ [][NextTorn]_vars

\* the log written and split, with and without a buffered writer
NextIndex ==
    \/ IdxWriteN \/ RWSplit
    \/ SetOpts

SpecIndex == Init /\ [][NextIndex]_vars

\* a segment written to directly, full or not
NextSegment ==
    \/ SegmentWriteN \/ RWSplit
    \/ Tick

SpecSegment == Init /\ [][NextSegment]_vars

\* a persistent scanner deleted while its Scan calls are under way
NextPClose ==
    \/ TopicWrite
    \/ NewPersistentScanner \/ PScanLive \/ persist \/ PClose
    \/ NotifyLoad \/ NotifyRecv \/ NotifySend

SpecPClose == Init /\ [][NextPClose]_vars

\* a topic with its writer, written, flushed by the ticker and deleted
NextTopicBuf ==
    \/ newTopic \/ TopicBufWrite \/ TopicBufTick \/ TopicBufFlush \/ DeleteTopic

SpecTopicBuf == Init /\ [][NextTopicBuf]_vars

\* the log with its readers and watchers: Close and Delete
NextClose ==
    \/ RWWrite \/ RWSplit
    \/ NewReader \/ CloseReader
    \/ NewWatcher \/ CloseWatcher
    \/ Close \/ Delete

SpecClose == Init /\ [][NextClose]_vars

\* the notify goroutine: it runs whenever it can take a step
notifyFair == WF_vars(NotifyLoad) /\ WF_vars(NotifyRecv) /\ WF_vars(NotifySend)

\* the log, its watchers and the notify goroutine
NextNotify ==
    \/ RWWrite \/ RWSplit
    \/ NewWatcher \/ CloseWatcher \/ WatchRecv
    \/ NotifyLoad \/ NotifyRecv \/ NotifySend

SpecNotify == Init /\ [][NextNotify]_vars /\ notifyFair

\* the topic tailed by a scanner whose context stays live; a suspended Scan
\* runs again whenever its watcher channel holds a notification
NextTail ==
    \/ TopicWrite \/ RWSplit
    \/ NewTopicScanner \/ ScanWait \/ ScanWake
    \/ NotifyLoad \/ NotifyRecv \/ NotifySend

SpecTail == Init /\ [][NextTail]_vars /\ notifyFair /\ WF_vars(ScanWake)

\* the topic tailed by a scanner whose waiting Scans may be cancelled
NextCancel ==
    \/ TopicWrite \/ RWSplit
    \/ NewTopicScanner \/ ScanWait \/ ScanWake \/ ScanCancel
    \/ NotifyLoad \/ NotifyRecv \/ NotifySend

SpecCancel == Init /\ [][NextCancel]_vars

\* the message buffer over a recording writer; the flusher goroutine and the
\* ticker run whenever they can
NextBuffer ==
    \/ MBNew \/ MBWrite \/ MBTick \/ MBTickFlush \/ MBClose \/ MBStop

SpecBuffer ==
    /\ Init /\ [][NextBuffer]_vars
    /\ WF_vars(MBTick) /\ WF_vars(MBTickFlush) /\ WF_vars(MBStop)

\* the log read by offset: batched writes, splits, readers opened anywhere
NextRead ==
    \/ LkWriteN \/ RWSplit
    \/ NewReader \/ Read \/ ReadToEOF

SpecRead == Init /\ [][NextRead]_vars

\* the log closed and opened again, with and without a buffered writer
NextReopen ==
    \/ WriteN \/ Split \/ Trim
    \/ SetOpts \/ Close \/ Reopen

SpecReopen == Init /\ [][NextReopen]_vars

\* the log written to by a process that can stop inside a write, and opened again
NextCrash ==
    \/ WriteN \/ Split
    \/ CrashInWrite \/ Reopen

SpecCrash == Init /\ [][NextCrash]_vars

\* the log streamed: batched writes and splits while deltas are fetched, read
\* and put back
NextStream ==
    \/ LkWriteN \/ RWSplit
    \/ NewStreamer \/ StreamGet \/ StreamRead \/ StreamPut

SpecStream == Init /\ [][NextStream]_vars

\* ------------------------------------------------------------------ claims
WroteOK == lastOp.op = "WriteN" /\ lastOp.err = NoErr

\* C1: the first successful WriteN is stored at offset 0 and every later one
\* at the previous write's offset plus the previous write's n, whatever
\* splits and trims happen in between.
C1_OffsetsContiguous ==
    [][(lastOp'.op = "WriteN" /\ lastOp'.err = NoErr)
         => lastOp'.ret = (IF lastW.n = 0 THEN 0 ELSE lastW.off + lastW.n)]_vars

\* C4: through the BigLog every WriteN succeeds: a full hot segment is split
\* first and the write lands in the new hot segment at offset Latest()+1;
\* it never fails with "segment full" and never leaves the index.
C4_WriteNAlwaysSucceeds ==
    [][lastOp'.op = "WriteN"
         => /\ lastOp'.err = NoErr
            /\ lastOp'.ret = Latest + 1
            /\ IsFull(HotSegOf(segs, hotSeg))
                 => (Len(segs') = Len(segs) + 1 /\ hotSeg' = nextSegId)]_vars

\* the offsets a model run can hand out
Offsets == 0..(MaxWrites * MaxN)

\* offset o was written and a Reader opened on it delivers its bytes
Readable(d, ss, o) == ReadAll(d, ss, o).err = NoErr /\ ReadAll(d, ss, o).bytes # <<>>

\* C2: a topic scanner created at an offset f between the oldest and the
\* latest offset is created without error, and its successive Scan calls
\* return the messages written at offsets f, f+1, f+2, ... in that order, each
\* once and each reported with its own offset, for single writes, raw
\* sequences and message-sets alike, embedded offsets f included.
C2_ScanInOrder ==
    [][/\ (lastOp'.op = "NewScanner" /\ lastOp'.arg < Len(written))
            => lastOp'.err = NoErr
       /\ (lastOp'.op = "Scan"
             /\ scanners[lastOp'.arg].from + scanners[lastOp'.arg].returned < Len(written))
            => /\ lastOp'.err = NoErr
               /\ lastOp'.ret = scanners[lastOp'.arg].from + scanners[lastOp'.arg].returned
               /\ lastOp'.m = written[lastOp'.ret + 1]]_vars

\* C3: Payload(o) of an offset o at which a message was stored returns the
\* payload of that message, also when the message is an element of a
\* message-set.
C3_PayloadRoundTrip ==
    [][lastOp'.op = "Payload"
         => /\ lastOp'.err = NoErr
            /\ lastOp'.m = Payload(written[lastOp'.arg + 1])]_vars

\* C9: a Scan suspended at the end of the log under a live context returns
\* the message written behind it, with its offset: once the scanner that has
\* returned the messages up to offset k - 1 is suspended and the message at
\* offset k is written, the Scan eventually returns message k at offset k.
C9_TailScanReturns ==
    \A k \in 0..(TopicMaxWrites - 1) :
        (/\ Len(scanners) > 0
         /\ scanners[1].pc = "wait"
         /\ scanners[1].from + scanners[1].returned = k
         /\ Len(written) > k)
          ~> (/\ lastOp.op = "Scan" /\ lastOp.err = NoErr
              /\ lastOp.ret = k /\ lastOp.m = written[k + 1])

\* C10: every successful append is eventually signalled to every watcher
\* registered at the time of the append and still open: after the write the
\* watcher's channel comes to hold a notification (several writes may share
\* one), whatever splits happen around the write.
C10_WriteSignalled ==
    \A w \in 1..MaxWatchers :
        (WroteOK /\ w \in watchers) ~> (w \notin watchers \/ wch[w].len = 1)

\* C11: a Scan waiting at the end of the topic whose context is cancelled
\* returns ErrEndOfTopic with no message and leaves the scanner where it was:
\* every Scan issued after a cancellation, once a message it has not yet
\* delivered is written, returns the first such message with its offset.
C11_CancelKeepsPosition ==
    [][/\ (lastOp'.op = "Scan" /\ scanners[lastOp'.arg].pc = "wait"
             /\ scanners'[lastOp'.arg].cancelled /\ ~scanners[lastOp'.arg].cancelled)
            => (lastOp'.err = ErrEndOfTopic /\ lastOp'.m = <<>>)
       /\ (lastOp'.op = "Scan" /\ scanners[lastOp'.arg].cancelled
             /\ scanners[lastOp'.arg].pc = "idle"
             /\ scanners[lastOp'.arg].from + scanners[lastOp'.arg].returned < Len(written))
            => /\ lastOp'.err = NoErr
               /\ lastOp'.ret = scanners[lastOp'.arg].from + scanners[lastOp'.arg].returned
               /\ lastOp'.m = written[lastOp'.ret + 1]]_vars

\* the messages a forwarded WriteN call carries
MsgsOf(w) == IF w.n = 1 THEN <<w.p>> ELSE Unpack(w.p).msgs

RECURSIVE Forwarded(_)
Forwarded(ws) == IF ws = <<>> THEN <<>> ELSE MsgsOf(Head(ws)) \o Forwarded(Tail(ws))

\* C12: the messages forwarded to the writer followed by the messages still
\* buffered are the messages written, in write order, and every forwarded
\* WriteN carries as many offsets as messages; without a ticker, k writes
\* with batch size N give k div N forwarded writes of N offsets each and
\* k mod N buffered messages.
C12_BufferConserves ==
    mb.made =>
        /\ Forwarded(mb.writes) \o mb.buff = mb.wrote
        /\ \A i \in 1..Len(mb.writes) : Len(MsgsOf(mb.writes[i])) = mb.writes[i].n
        /\ ~mb.ticker =>
             /\ Len(mb.writes) = Len(mb.wrote) \div mb.messages
             /\ \A i \in 1..Len(mb.writes) : mb.writes[i].n = mb.messages
             /\ Len(mb.buff) = Len(mb.wrote) % mb.messages

C12_Witness ==
    /\ mb.ticker /\ Len(mb.writes) >= 2 /\ mb.buff # <<>>
    /\ \E i \in 1..Len(mb.writes) : mb.writes[i].n > 1 /\ mb.writes[i].n < mb.messages
    /\ \E i \in 1..Len(mb.writes) : mb.writes[i].n = 1

\* C13: flush with nothing buffered makes no call to the writer, with one
\* buffered message it forwards that message's bytes with WriteN(bytes, 1),
\* with c > 1 it forwards one message-set of the c messages with
\* WriteN(packed, c); afterwards nothing is buffered.
C13_FlushCases ==
    [][lastOp'.op = "mb.Flush"
         => /\ mb'.buff = <<>>
            /\ Len(mb.buff) = 0 => mb'.writes = mb.writes
            /\ Len(mb.buff) = 1 => mb'.writes = Append(mb.writes, [p |-> mb.buff[1], n |-> 1])
            /\ Len(mb.buff) > 1
                 => /\ Len(mb'.writes) = Len(mb.writes) + 1
                    /\ SubSeq(mb'.writes, 1, Len(mb.writes)) = mb.writes
                    /\ mb'.writes[Len(mb'.writes)].n = Len(mb.buff)
                    /\ Compression(mb'.writes[Len(mb'.writes)].p) = mb.comp
                    /\ Unpack(mb'.writes[Len(mb'.writes)].p) = [msgs |-> mb.buff, err |-> NoErr]]_vars

C13_Witness ==
    /\ lastOp.op = "mb.Flush" /\ lastOp.arg > 1 /\ lastOp.ret = 1
    /\ mb.buff = <<>> /\ mb.comp = CompressionGzip

\* C14: with a ticker, messages that do not fill a batch are forwarded by the
\* next tick's flush and by nothing before it: a Write that leaves the batch
\* short makes no call to the writer, the tick's flush of a non-empty buffer
\* makes exactly one, and while the buffer is not being closed a buffered
\* message is eventually flushed.
C14_TickerFlushes ==
    /\ [][/\ (lastOp'.op = "mb.Write" /\ Len(mb.buff) + 1 # mb.messages)
               => (mb'.writes = mb.writes /\ mb'.buff # <<>>)
          /\ (lastOp'.op = "mb.Flush" /\ mb.buff # <<>>)
               => (Len(mb'.writes) = Len(mb.writes) + 1 /\ mb'.buff = <<>>)]_vars
    /\ (mb.ticker /\ mb.buff # <<>> /\ mb.cpc = "idle")
         ~> (mb.buff = <<>> \/ mb.cpc # "idle")

C14_Witness ==
    /\ lastOp.op = "mb.Flush" /\ lastOp.ret = 1
    /\ Len(mb.writes) = 1 /\ mb.writes[1].n = Len(mb.wrote)
    /\ mb.writes[1].n > 1 /\ mb.writes[1].n < mb.messages

\* C15: Close always completes: once called it returns, whatever the batch
\* size and interval and however a tick's flush interleaves with it, and after
\* it has returned the flusher makes no further call to the writer.
C15_CloseReturns ==
    /\ (mb.cpc = "send") ~> (mb.cpc = "returned")
    /\ [][mb.cpc = "returned" => mb'.writes = mb.writes]_vars

\* the writes from the k-th on, and the position in appended of the write
\* that holds offset o (0 if none does)
RECURSIVE BytesFrom(_)
BytesFrom(k) == IF k > Len(appended) THEN <<>> ELSE appended[k].b \o BytesFrom(k + 1)

WriteOf(o) ==
    IF \E k \in 1..Len(appended) : appended[k].off <= o /\ o < appended[k].off + appended[k].n
    THEN CHOOSE k \in 1..Len(appended) : appended[k].off <= o /\ o < appended[k].off + appended[k].n
    ELSE 0

\* the data file offset of the k-th write: the bytes written to its segment before it
RECURSIVE BytesBefore(_, _)
BytesBefore(k, j) ==
    IF j >= k THEN 0
    ELSE (IF appended[j].seg = appended[k].seg THEN Len(appended[j].b) ELSE 0)
         + BytesBefore(k, j + 1)

\* C16: a Reader opened at the first offset of a write is opened without
\* error and, read until EOF, has delivered the bytes of that write and of
\* every later write, in append order, across the segment boundaries.
C16_ReadToEOF ==
    [][/\ (lastOp'.op = "NewReader" /\ WriteOf(lastOp'.arg) > 0
             /\ appended[WriteOf(lastOp'.arg)].off = lastOp'.arg)
            => (lastOp'.err = NoErr /\ lastOp'.ret = lastOp'.arg)
       /\ (lastOp'.op = "Read" /\ lastOp'.err = EOF
             /\ WriteOf(rdr[lastOp'.arg].from) > 0
             /\ appended[WriteOf(rdr[lastOp'.arg].from)].off = rdr[lastOp'.arg].from)
            => rdr'[lastOp'.arg].got = BytesFrom(WriteOf(rdr[lastOp'.arg].from))]_vars

\* C17: for every offset held by a write, Lookup finds the index entry of
\* that write and reports ErrEmbeddedOffset exactly when the offset is not
\* the write's first; the reader opened there is positioned at the write's
\* first byte and returns the write's first offset.
C17_LookupEnclosing ==
    [][(lastOp'.op = "NewReader" /\ WriteOf(lastOp'.arg) > 0)
         => /\ lastOp'.err = (IF appended[WriteOf(lastOp'.arg)].off < lastOp'.arg
                              THEN ErrEmbeddedOffset ELSE NoErr)
            /\ lastOp'.ret = appended[WriteOf(lastOp'.arg)].off
            /\ Len(rdr') = Len(rdr) + 1
            /\ rdr'[Len(rdr')].seg = appended[WriteOf(lastOp'.arg)].seg
            /\ rdr'[Len(rdr')].pos = BytesBefore(WriteOf(lastOp'.arg), 1)]_vars

\* the offset of the index entry under the IndexReader's cursor
CursorOffset(d, ss, segId, iFO) ==
    absolute(readEntry(d[ss[SegIdx(ss, segId)].baseOffset].index, iFO).RO,
             ss[SegIdx(ss, segId)].baseOffset)

\* how many writes, from the k-th on, fit in o offsets and b bytes; the
\* offsets and the bytes of c writes from the k-th on
RECURSIVE Fit(_, _, _)
Fit(k, o, b) ==
    IF k < 1 \/ k > Len(appended) THEN 0
    ELSE IF appended[k].n > o \/ Len(appended[k].b) > b THEN 0
    ELSE 1 + Fit(k + 1, o - appended[k].n, b - Len(appended[k].b))

RECURSIVE SumN(_, _)
SumN(k, c) == IF c <= 0 \/ k < 1 \/ k > Len(appended) THEN 0
              ELSE appended[k].n + SumN(k + 1, c - 1)

RECURSIVE BytesOf(_, _)
BytesOf(k, c) == IF c <= 0 \/ k < 1 \/ k > Len(appended) THEN <<>>
                 ELSE appended[k].b \o BytesOf(k + 1, c - 1)

\* C18: a ReadSection (through Streamer.Get) whose first entry fits both
\* limits returns a section of consecutive entries from the cursor, within
\* maxOffsets and maxBytes; one whose first entry exceeds a limit fails with
\* ErrNeedMoreOffsets or ErrNeedMoreBytes, the cursor stays on that entry and
\* a retry with limits the entry fits returns it.
C18_ReadSectionLimits ==
    [][lastOp'.op = "Get" =>
        LET o == CursorOffset(disk, segs, strm.iseg, strm.iFO)
            k == WriteOf(o)
            maxO == strm'.maxOffsets
            maxB == strm'.maxBytes
            overO == k > 0 /\ appended[k].n > maxO
            overB == k > 0 /\ ~overO /\ Len(appended[k].b) > maxB
            retry == ReadSection(disk', segs', strm'.iseg, strm'.iFO,
                                 appended[k].n, Len(appended[k].b))
        IN  /\ (overO \/ overB) =>
                 /\ lastOp'.err = (IF overO THEN ErrNeedMoreOffsets ELSE ErrNeedMoreBytes)
                 /\ strm'.sec.nil
                 /\ CursorOffset(disk', segs', strm'.iseg, strm'.iFO) = o
                 /\ retry.err \in {NoErr, EOF}
                 /\ retry.is.Offset = o /\ retry.is.EDelta = 1
            /\ ~(overO \/ overB) =>
                 /\ lastOp'.err \in {NoErr, EOF}
                 /\ ~strm'.sec.nil
                 /\ strm'.sec.ODelta <= maxO /\ strm'.sec.Size <= maxB
                 /\ strm'.sec.EDelta > 0 => (k > 0 /\ strm'.sec.Offset = o)
                 /\ strm'.sec.ODelta = SumN(k, strm'.sec.EDelta)
                 /\ strm'.sec.Size = Len(BytesOf(k, strm'.sec.EDelta))]_vars

\* C19: whenever entries that fit the limits lie after the previous delta, Get
\* returns a delta that starts where the previous one ended (at the start
\* entry for the first) and holds as many entries as fit, the last entry of
\* the log included; the bytes read from a delta before Put are the stored
\* bytes of its entries.
C19_DeltaChain ==
    [][/\ lastOp'.op = "Get" =>
            LET k == WriteOf(strm.next)
                c == Fit(k, strm'.maxOffsets, strm'.maxBytes)
            IN  /\ c > 0 => lastOp'.err = NoErr
                /\ lastOp'.err = NoErr =>
                     /\ strm'.delta.Offset = strm.next
                     /\ strm'.delta.EDelta = c
                     /\ strm'.delta.ODelta = SumN(k, c)
                     /\ strm'.delta.Size = Len(BytesOf(k, c))
       /\ lastOp'.op = "Put" =>
            strm.sent = BytesOf(WriteOf(strm.delta.Offset), strm.delta.EDelta)]_vars

\* C20: Info().next of a scanner is the offset after the message its last
\* successful Scan returned, or the offset it was created at before the first
\* Scan, raised to Oldest() when the log was trimmed past it.
C20_InfoNext ==
    [][lastOp'.op = "Info" =>
        LET t == scanners[lastOp'.arg]
            n == IF t.lastRet < 0 THEN t.from ELSE t.lastRet + 1
        IN  lastOp'.ret = (IF Oldest > n THEN Oldest ELSE n)]_vars

\* C21: the offset in the file of a persistent scanner is always one that
\* Scan has already returned to a caller, the stored offset never goes
\* backwards, and the scanner restored at max(last + 1, oldest) leaves out
\* no message from its first position on that was not returned, except the
\* trimmed ones.
C21_PersistedOffset ==
    [][ /\ pts'.file # -1 => pts'.file \in pts'.returned
        /\ pts'.file >= pts.file
        /\ (lastOp'.op = "Restore" /\ pts'.boots # pts.boots /\ pts'.made) =>
              \A o \in pts.from0..(scanners'[1].from - 1) :
                  o >= segs'[1].baseOffset => o \in pts.returned ]_vars

\* C24: every CheckSegments call applies both rules: it trims the oldest
\* segment when segAge > 0, there are two segments or more, the oldest one's
\* mtime + segAge lies before now and no reader holds it; and it splits
\* when segSize > 0 and the hot segment's data is larger than segSize,
\* whatever the age rule did in that call.
C24_BothRules ==
    [][ lastOp'.op = "CheckSegments" =>
          LET segAge == lastOp'.arg
              segSize == lastOp'.ret
              hot == HotSegOf(segs, hotSeg)
          IN  /\ (/\ segAge > 0
                  /\ Len(segs) >= 2
                  /\ mtime[segs[1].baseOffset] + segAge < now
                  /\ ~IsBusy(segs[1]))
                 => segs'[1].baseOffset # segs[1].baseOffset
              /\ (segSize > 0 /\ Len(disk[hot.baseOffset].data) > segSize)
                 => hotSeg' # hotSeg ]_vars

\* the index entries of the log: first offset and timestamp of every write
IndexEntries ==
    UNION {{[off |-> absolute(disk[segs[k].baseOffset].index[j].RO, segs[k].baseOffset),
             ts |-> disk[segs[k].baseOffset].index[j].TS] :
              j \in 0..((segs[k].NiFO \div iw) - 1)} : k \in 1..Len(segs)}

\* C25: After(t) returns the first offset written at or after t, whichever
\* segment holds it: whenever the log has an entry written at t or later,
\* After(t) succeeds and returns the offset of the first such entry.
C25_AfterFirst ==
    (lastOp.op = "After" /\ Open) =>
        LET late == {e \in IndexEntries : e.ts >= lastOp.arg}
        IN  late # {} =>
              /\ lastOp.err = NoErr
              /\ \A e \in late : lastOp.ret <= e.off
              /\ \E e \in late : lastOp.ret = e.off

\* C26: ReadFrom on a stream of k framed messages writes to the topic, in
\* stream order, exactly the messages whose CRC is valid, and returns with
\* no error once the stream is at EOF.
C26_ReadFromStream ==
    [][ lastOp'.op = "ReadFrom" =>
          /\ written' = written \o SelectSeq(lastOp'.m, ChecksumOK)
          /\ lastOp'.err = NoErr ]_vars

\* the integrity errors of the entries written at from or later, in offset
\* order: history entries k and after
RECURSIVE Corrupted(_, _)
Corrupted(from, k) ==
    IF k > Len(appended) THEN <<>>
    ELSE (IF appended[k].off >= from /\ CheckMessageIntegrity(appended[k].b) # NoErr
          THEN <<[Offset |-> appended[k].off, ODelta |-> appended[k].n,
                  Type |-> CheckMessageIntegrity(appended[k].b)]>>
          ELSE <<>>) \o Corrupted(from, k + 1)

\* C27: CheckIntegrity(topic, from) reports exactly the corrupted entries
\* at or after from, one error each, in offset order, with the entry's
\* offset (up to the cap on the number of errors).
C27_ExactErrors ==
    (lastOp.op = "CheckIntegrity" /\ lastOp.err # ErrEmbeddedOffset
        /\ lastOp.err # ErrNotFound) =>
        /\ lastOp.err = NoErr
        /\ lastOp.m.errors = SubSeq(Corrupted(lastOp.arg, 1), 1,
                                    Min(errLimit, Len(Corrupted(lastOp.arg, 1))))

\* C28: an integrity check stops as soon as it holds errLimit errors or
\* its context is cancelled: it never returns more than errLimit errors,
\* and it makes no scan after the context is done.
C28_StopsOnCancel ==
    (lastOp.op = "CheckIntegrity" /\ lastOp.err = NoErr) =>
        /\ Len(lastOp.m.errors) <= errLimit
        /\ lastOp.m.scans <= lastOp.ret

\* C29: a segment is deleted only while no reader is positioned on it or
\* attaching to it: the segment of every open reader, and the segment a
\* NewReader call has located and is about to attach to, is in the list of
\* segments with its files on disk
C29_ReaderSegmentLive ==
    /\ \A id \in readers :
         rdr[id].open => /\ HasSeg(segs, rdr[id].seg)
                         /\ segs[SegIdx(segs, rdr[id].seg)].baseOffset \in DOMAIN disk
    /\ fl.pc = "located" => /\ HasSeg(segs, fl.seg.id)
                            /\ fl.seg.baseOffset \in DOMAIN disk

\* C29, the end of the race: a reader that reads from a removed segment
C29_ReadsRemoved == lastOp.op = "Read" => lastOp.err # ErrFileClosed

IsPrefix(a, b) == Len(a) <= Len(b) /\ SubSeq(b, 1, Len(a)) = a

\* C30: a reader opened at the first offset of a write has delivered, at
\* every moment, a prefix of the bytes of that write and of the writes after
\* it in append order, whatever writes and splits happen while it reads: it
\* leaves no byte of a segment behind when it moves on to the next one
C30_NothingSkipped ==
    \A id \in readers :
        (/\ rdr[id].kind = "data"
         /\ WriteOf(rdr[id].from) > 0
         /\ appended[WriteOf(rdr[id].from)].off = rdr[id].from)
        => IsPrefix(rdr[id].got, BytesFrom(WriteOf(rdr[id].from)))

\* C31: every entry an IndexReader returns while writes are in progress is
\* the entry of one write: it has that write's first offset, its n as the
\* offset-delta and its byte length as the size
C31_WholeEntries ==
    lastOp.op = "ReadEntries" =>
        \A i \in 1..Len(lastOp.m) :
            \E k \in 1..Len(appended) :
                /\ lastOp.m[i].Offset = appended[k].off
                /\ lastOp.m[i].ODelta = appended[k].n
                /\ lastOp.m[i].Size = Len(appended[k].b)

\* C32: the list of segments is ordered by strictly increasing base offset,
\* its last segment is the hot one, and every segment starts at the base of
\* the segment before it plus the number of offsets stored in that segment
C32_SegmentChain ==
    Open =>
        /\ hotSeg = segs[Len(segs)].id
        /\ \A i \in 1..(Len(segs) - 1) :
             /\ segs[i].baseOffset < segs[i + 1].baseOffset
             /\ segs[i + 1].baseOffset = segs[i].baseOffset + (segs[i].NRO - 1)

\* C33: Latest() never decreases; it changes only by a WriteN that succeeds,
\* and then grows by that write's n; a WriteN that succeeds receives the
\* offset Latest() + 1; and Latest() is never below Oldest() - 1
C33_LatestMonotone ==
    [][/\ latest(segs', hotSeg') >= latest(segs, hotSeg)
       /\ latest(segs', hotSeg') # latest(segs, hotSeg)
            => /\ lastOp'.op = "WriteN"
               /\ lastOp'.err = NoErr
               /\ latest(segs', hotSeg') = latest(segs, hotSeg) + lastOp'.arg
       /\ (lastOp'.op = "WriteN" /\ lastOp'.err = NoErr)
            => lastOp'.ret = latest(segs, hotSeg) + 1
       /\ latest(segs', hotSeg') >= segs'[1].baseOffset - 1]_vars

\* the writes made to segment id, in order
WritesTo(id) == SelectSeq(appended, LAMBDA w : w.seg = id)

\* the bytes the writer of segment s holds back from its data file
HeldBack(s) == IF s.id = hotSeg THEN Len(wr.buf) ELSE 0

\* the index of every segment: the entry at NiFO is the next one (relOffset
\* NRO, timestamp 0, data offset NdFO = data file length + held), the
\* entries before it are one per write with that write's n and length as
\* the steps of relOffset and data offset, the entries after it are zero
IndexShape(held, strict) ==
    \A k \in 1..Len(segs) :
        LET s == segs[k]
            f == disk[s.baseOffset]
            N == s.NiFO \div iw
            ws == WritesTo(s.id)
        IN  /\ N \in DOMAIN f.index
            /\ f.index[N].RO = s.NRO
            /\ f.index[N].TS = 0
            /\ f.index[N].dFO = s.NdFO
            /\ s.NdFO = Len(f.data) + (IF held THEN HeldBack(s) ELSE 0)
            /\ N = Len(ws)
            /\ \A i \in 0..(N - 1) :
                 /\ f.index[i].RO < f.index[i + 1].RO
                 /\ f.index[i + 1].RO - f.index[i].RO = ws[i + 1].n
                 /\ f.index[i + 1].dFO - f.index[i].dFO = Len(ws[i + 1].b)
                 /\ strict => f.index[i].dFO < f.index[i + 1].dFO
            /\ \A i \in DOMAIN f.index : i > N => f.index[i] = ZeroEntry

\* C34: after every write, in every segment, the entry at NiFO has relOffset
\* NRO, timestamp 0 and data offset NdFO = the length of the data file; the
\* entries before it are one per write, with strictly increasing relOffsets
\* and data offsets; the entries after it are zero
C34_IndexShape == Open => IndexShape(FALSE, TRUE)

\* C34 as the code has it: NdFO counts the bytes the segment's writer has
\* accepted, those a buffered writer holds back included, and the data
\* offsets grow by the length of each write, which may be zero
C34_IndexShapeHeld == Open => IndexShape(TRUE, FALSE)

\* a hot segment with two writes, one of no bytes and one of two offsets,
\* whose buffered writer holds bytes back
C34_Witness ==
    /\ Open
    /\ wr.buf # <<>>
    /\ \E k \in 1..Len(segs) :
         /\ segs[k].id = hotSeg
         /\ Len(WritesTo(hotSeg)) = 2
         /\ \E i, j \in 1..2 : WritesTo(hotSeg)[i].b = <<>> /\ WritesTo(hotSeg)[j].n = 2

\* C35: in every segment the entry at byte position (NRO-1)*16 has
\* timestamp 0 and a data offset equal to the length of the data file
C35_EntryAtNRO ==
    Open => \A k \in 1..Len(segs) :
                LET f == disk[segs[k].baseOffset]
                    i == segs[k].NRO - 1
                IN  /\ i \in DOMAIN f.index
                    /\ f.index[i].TS = 0
                    /\ f.index[i].dFO = Len(f.data)

\* C35 as the code has it: the entry with timestamp 0 and the data offset of
\* the end of the data, held-back bytes included, is the one at byte
\* position NiFO, which is (NRO-1)*16 only while every write had n = 1
C35_EntryAtNiFO ==
    Open => \A k \in 1..Len(segs) :
                LET s == segs[k]
                    f == disk[s.baseOffset]
                IN  /\ InIndex(f.index, s.NiFO)
                    /\ readEntry(f.index, s.NiFO).TS = 0
                    /\ readEntry(f.index, s.NiFO).dFO = Len(f.data) + HeldBack(s)
                    /\ (\A j \in 1..Len(WritesTo(s.id)) : WritesTo(s.id)[j].n = 1)
                         => s.NiFO = (s.NRO - 1) * iw

\* a segment written with n = 2, where NiFO is not (NRO-1)*16
C35_Witness ==
    /\ Open
    /\ \E k \in 1..Len(segs) :
         /\ segs[k].NiFO > 0
         /\ segs[k].NiFO # (segs[k].NRO - 1) * iw

\* C36: WriteN on a segment that cannot take another entry (IsFull) fails
\* with "segment full" and changes nothing: the data file, the index and
\* NRO, NiFO, NdFO are as before, and NiFO stays inside the index
C36_FullSegmentRefuses ==
    [][(lastOp'.op = "segment.WriteN" /\ IsFull(HotSegOf(segs, hotSeg)))
         => /\ lastOp'.err = ErrSegmentFull
            /\ disk' = disk
            /\ segs' = segs
            /\ segs'[SegIdx(segs, hotSeg)].NiFO < segs'[SegIdx(segs, hotSeg)].indexSize]_vars

\* C37: Payload(offset), whether it succeeds or fails, leaves the set of
\* registered readers and the reader count of every segment as they were
C37_PayloadNoTrace ==
    [][lastOp'.op = "Payload"
         => /\ readers' = readers
            /\ Len(segs') = Len(segs)
            /\ \A k \in 1..Len(segs) : segs'[k].readers = segs[k].readers]_vars

\* C38: deleting a persistent scanner during a Scan is safe: no Scan call
\* sends an offset on the offset channel once it is closed (the send would
\* panic), and no notification reaches the watcher channel once it is closed
C38_CloseSafe ==
    [][/\ \A c \in 1..MaxCallers : pts'.calls[c].pc # "panic"
       /\ \A w \in 1..Len(wch) : wch[w].closed => wch'[w].len <= wch[w].len]_vars

\* C39: once DeleteTopic has succeeded the topic's messageBuffer makes no
\* WriteN call on the deleted log, whatever it still had buffered
C39_NoWriteAfterDelete ==
    [][~Open => mb'.writes = mb.writes]_vars

\* C40: with a messageBuffer installed, Write never aborts and the number of
\* buffered messages never exceeds m.messages, the places of m.buff
C40_BufferedWithinCapacity ==
    /\ mb.cpc # "panic"
    /\ mb.made => Len(mb.buff) <= mb.messages

\* the bytes of the writes of the history app that received the offsets from
\* lo up to hi
RECURSIVE BytesIn(_, _, _, _)
BytesIn(app, lo, hi, k) ==
    IF k > Len(app) THEN <<>>
    ELSE (IF lo <= app[k].off /\ app[k].off <= hi THEN app[k].b ELSE <<>>)
         \o BytesIn(app, lo, hi, k + 1)

\* C22: Open after a stop inside a write gives a hot segment whose data
\* file has the indexed length, a log that ends at the last write whose
\* WriteN returned, every segment holding the bytes of the writes that
\* received its offsets; and the write that follows gets the next offset and
\* is stored in the hot segment's data file.
C22_PartialWriteRecovered ==
    [][/\ (lastOp'.op = "Open" /\ lastOp.op = "Crash")
            => /\ Len(disk'[HotSegOf(segs', hotSeg').baseOffset].data)
                    = HotSegOf(segs', hotSeg').NdFO
               /\ latest(segs', hotSeg') = lastOp.m[2]
               /\ \A k \in 1..Len(segs') :
                    disk'[segs'[k].baseOffset].data =
                      BytesIn(appended, segs'[k].baseOffset,
                              IF k < Len(segs') THEN segs'[k + 1].baseOffset - 1
                              ELSE lastOp.m[2], 1)
       /\ (lastOp.op = "Open" /\ lastOp.ret = 1 /\ lastOp'.op = "WriteN" /\ lastOp'.err = NoErr)
            => /\ lastOp'.ret = lastOp.m[2] + 1
               /\ \A k \in 1..Len(segs') :
                    disk'[segs'[k].baseOffset].data =
                      BytesIn(appended', segs'[k].baseOffset,
                              IF k < Len(segs') THEN segs'[k + 1].baseOffset - 1
                              ELSE latest(segs', hotSeg'), 1)]_vars

\* C23: Open after a successful Close gives a log with the Oldest() and the
\* Latest() it had when it was closed, and every segment holds the bytes of
\* the writes that received its offsets.
C23_ReopenSame ==
    [][(lastOp'.op = "Open" /\ lastOp.op = "Close" /\ lastOp.err = NoErr)
         => /\ segs'[1].baseOffset = lastOp.m[1]
            /\ latest(segs', hotSeg') = lastOp.m[2]
            /\ \A k \in 1..Len(segs') :
                 disk'[segs'[k].baseOffset].data =
                   BytesIn(appended, segs'[k].baseOffset,
                           IF k < Len(segs') THEN segs'[k + 1].baseOffset - 1
                           ELSE lastOp.m[2], 1)]_vars

\* C5: a successful Split leaves Latest() and Oldest() as they were, adds
\* exactly one segment, keeps every readable offset readable with the same
\* content, and the WriteN that follows is stored in the new segment.
C5_SplitFrame ==
    [][/\ (lastOp'.op = "Split" /\ lastOp'.err = NoErr)
            => /\ Latest' = Latest
               /\ Oldest' = Oldest
               /\ Len(segs') = Len(segs) + 1
               /\ hotSeg' = segs'[Len(segs')].id
               /\ hotSeg' \notin {segs[k].id : k \in 1..Len(segs)}
               /\ \A o \in Offsets :
                    Readable(disk, segs, o)
                      => ReadAll(disk', segs', o) = ReadAll(disk, segs, o)
       /\ (lastOp.op = "Split" /\ lastOp.err = NoErr
             /\ lastOp'.op = "WriteN" /\ lastOp'.err = NoErr)
            => /\ Len(segs') = Len(segs)
               /\ segs'[Len(segs)].id = hotSeg
               /\ segs'[Len(segs)].NRO = lastOp'.arg + 1
               /\ Len(disk'[segs'[Len(segs)].baseOffset].data) = segs'[Len(segs)].NdFO
               /\ \A k \in 1..(Len(segs) - 1) :
                    /\ segs'[k] = segs[k]
                    /\ disk'[segs[k].baseOffset] = disk[segs[k].baseOffset]]_vars

C5_Witness ==
    /\ lastOp.op = "Split" /\ lastOp.err = NoErr
    /\ Len(segs) >= 2
    /\ Readable(disk, segs, Oldest)

\* the state of the log itself: files, segment list, hot segment, channels
logState == <<disk, segs, hotSeg, nextSegId, notifyCh>>

\* C6: with at least two segments and no reader on the oldest one, Trim
\* removes exactly the oldest segment: Oldest() becomes the base of the
\* former second segment, offsets from there on read as before, offsets
\* below it are not found any more.
C6_TrimRemovesOldest ==
    [][(lastOp'.op = "Trim" /\ Len(segs) >= 2 /\ segs[1].readers = 0)
         => /\ lastOp'.err = NoErr
            /\ segs' = Tail(segs)
            /\ Oldest' = segs[2].baseOffset
            /\ DOMAIN disk' = DOMAIN disk \ {segs[1].baseOffset}
            /\ \A b \in DOMAIN disk' : disk'[b] = disk[b]
            /\ \A o \in Offsets :
                 /\ (o >= Oldest' /\ Readable(disk, segs, o))
                      => ReadAll(disk', segs', o) = ReadAll(disk, segs, o)
                 /\ o < Oldest' => ReadAll(disk', segs', o).err = ErrNotFound]_vars

C6_Witness ==
    /\ lastOp.op = "Trim" /\ lastOp.err = NoErr
    /\ \E o \in Offsets : o > 0 /\ o = Oldest /\ Readable(disk, segs, o)

\* C7: Trim on a single-segment log fails with "last segment", Trim with a
\* reader on the oldest segment fails with "segment busy"; either way the
\* segment list, the files and all readable data stay as they were.
C7_TrimFailsUnchanged ==
    [][(lastOp'.op = "Trim" /\ (Len(segs) < 2 \/ segs[1].readers > 0))
         => /\ lastOp'.err = (IF Len(segs) < 2 THEN ErrLastSegment ELSE ErrSegmentBusy)
            /\ UNCHANGED logState
            /\ Oldest' = Oldest /\ Latest' = Latest
            /\ \A o \in Offsets : ReadAll(disk', segs', o) = ReadAll(disk, segs, o)]_vars

C7_Witness ==
    /\ lastOp.op = "Trim" /\ lastOp.err = ErrSegmentBusy
    /\ Len(segs) >= 2 /\ segs[1].readers > 0

\* C8: a non-forced Close or Delete fails with "busy" while a reader or a
\* watcher is registered or a segment has a positive reader count, and then
\* changes nothing; a forced Delete succeeds whatever is registered.
C8_BusyCloseDelete ==
    [][lastOp'.op \in {"Close", "Delete"}
         => /\ (lastOp'.arg = FALSE
                  /\ (readers # {} \/ watchers # {}
                        \/ \E k \in 1..Len(segs) : segs[k].readers > 0))
                 => (lastOp'.err = ErrBusy /\ UNCHANGED logState)
            /\ (lastOp'.op = "Delete" /\ lastOp'.arg = TRUE)
                 => (lastOp'.err = NoErr /\ disk' = <<>> /\ hotSeg' = Nil)]_vars

C8_Witness ==
    /\ lastOp.op = "Delete" /\ lastOp.err = ErrBusy
    /\ readers # {} /\ watchers # {}
    /\ Open /\ Len(segs) >= 2

====
